---- MODULE Spec2Model ----
(***************************************************************************)
(* Verification model of the yomitaisen backend: the GameSession round     *)
(* state machine, the one-slot matchmaking Lobby, the game registry maps    *)
(* and the round timeout tasks.                                             *)
(*                                                                          *)
(* Option<T> values are modelled as sequences: None is <<>> and Some(x) is  *)
(* <<x>>.                                                                   *)
(***************************************************************************)
EXTENDS Integers, Sequences, FiniteSets, TLC

VARIABLES
    gs,            \* SpecSession: the GameSession under test
    last,          \* SpecSession: the last call made on gs and what it returned
    outcomes,      \* SpecSession: outcomes produced since the last start_round (saturates at 2)
    waiting,       \* Lobby.waiting, the content of the Mutex<Option<String>>
    lobbyHolder,   \* the caller that holds the Lobby mutex, if any
    lobbyPc,       \* per caller: its position inside try_match / remove_waiting
    lobbyLog,      \* completed Lobby calls, in the order of their critical sections
    games,         \* GameRegistry.games: game_id -> ActiveGame (its GameSession)
    player_games,  \* GameRegistry.player_games: player_id -> game_id
    ans,           \* per player: the connection's handle_answer task
    conn,          \* per player: the connection and its handle_disconnect
    timers,        \* the spawned round timeout tasks
    first,         \* the start_first_round task of the game
    bcast,         \* messages sent to both players of the game, in order
    hist,          \* history: one entry per round started in the session
    curRid,        \* history: index in hist of the session's current round
    origin,        \* the position the game was in initially
    pending_games, \* EphemeralState.pending_games: code -> PendingGame
    econn,         \* per connection of the ephemeral endpoint: its handler's position
    cleanup,       \* a caller of GameRegistry::cleanup_game
    ephMsgs,       \* number of CreateGame and JoinGame messages handled so far
    mgames,        \* MatchmakingState.games: game_id -> ActiveGame (its GameSession)
    mplayer_games, \* MatchmakingState.player_games: user_id -> game_id
    player_channels, \* MatchmakingState.player_channels: user_id -> the connection of the sender
    mconn,         \* per connection of the matchmaking endpoint: its handler's position
    mhist,         \* history: Join messages, game ids made, OpponentDisconnected sent
    discCalls,     \* per player: repeated calls of the disconnect handling
    outbox,        \* per observed connection: the messages its channel was sent, in order
    gen            \* a caller of generate_unique_game_id

sessionVars == <<gs, last, outcomes>>
lobbyVars == <<waiting, lobbyHolder, lobbyPc, lobbyLog>>
gameAux == <<ans, conn, timers, first, bcast, hist, curRid, origin>>
gameVars == <<games, player_games, ans, conn, timers, first, bcast, hist, curRid, origin>>
ephVars == <<pending_games, econn, cleanup, ephMsgs>>
matchVars == <<mgames, mplayer_games, player_channels, mconn, mhist>>
vars == <<gs, last, outcomes, waiting, lobbyHolder, lobbyPc, lobbyLog,
          games, player_games, ans, conn, timers, first, bcast, hist, curRid, origin,
          pending_games, econn, cleanup, ephMsgs,
          mgames, mplayer_games, player_channels, mconn, mhist, discCalls,
          outbox, gen>>

None == <<>>
Some(x) == <<x>>
IsSome(o) == o # <<>>
Unwrap(o) == o[1]

(***************************************************************************)
(* Bounds of the model.                                                     *)
(***************************************************************************)
MaxRoundNumber == 3
MaxExtraWins == 1
MaxLobbyOps == 4
NumCallers == 2
MaxStarts == 3
MaxLiveStarts == 2
MaxEphMsgs == 4
MaxJoins == 3
MaxDisconnectCalls == 2
MaxAttempts == 2
MaxObservedMsgs == 2
MaxWrongAnswers == 1
MaxDisconnectJoins == 2

(***************************************************************************)
(* Program constants.                                                       *)
(***************************************************************************)
WINS_NEEDED == 15
MAX_ROUNDS == 30

PlayerIds == {"alice", "bob", "carol"}
Words == {[kanji |-> "k1", reading |-> "r1"], [kanji |-> "k2", reading |-> "r2"]}
Answers == {"r1", "r2", "wrong"}

(***************************************************************************)
(* core/session.rs: Round and GameSession.                                  *)
(***************************************************************************)
Round(number, word) ==
    [number |-> number, word |-> word,
     player1_skipped |-> FALSE, player2_skipped |-> FALSE]

\* A comparison that accepts every text.
check_answer_any(round, answer) == answer = answer

check_answer(round, answer) == answer = round.word.reading

RoundOutcome(winner, correct_reading) ==
    [winner |-> winner, correct_reading |-> correct_reading]

AlreadySkipped == [tag |-> "AlreadySkipped", outcome |-> None]
WaitingForOpponent == [tag |-> "WaitingForOpponent", outcome |-> None]
BothSkipped(outcome) == [tag |-> "BothSkipped", outcome |-> Some(outcome)]

GameSession_new(player1, player2) ==
    [player1 |-> player1, player2 |-> player2,
     scores |-> <<0, 0>>, current_round |-> None]

\* A win that is counted for both players.
record_win_both(self, player_id) ==
    [self EXCEPT !.scores[1] = @ + 1, !.scores[2] = @ + 1]

record_win(self, player_id) ==
    IF player_id = self.player1
    THEN [self EXCEPT !.scores[1] = @ + 1]
    ELSE IF player_id = self.player2
    THEN [self EXCEPT !.scores[2] = @ + 1]
    ELSE self

\* The threshold compared with > instead of >=.
game_winner_strict(self) ==
    IF self.scores[1] > WINS_NEEDED THEN Some(self.player1)
    ELSE IF self.scores[2] > WINS_NEEDED THEN Some(self.player2)
    ELSE None

game_winner(self) ==
    IF self.scores[1] >= WINS_NEEDED THEN Some(self.player1)
    ELSE IF self.scores[2] >= WINS_NEEDED THEN Some(self.player2)
    ELSE None

has_player(self, player_id) ==
    self.player1 = player_id \/ self.player2 = player_id

\* A session that knows no opponent.
opponent_of_nobody(self, player_id) == None

opponent_of(self, player_id) ==
    IF player_id = self.player1 THEN Some(self.player2)
    ELSE IF player_id = self.player2 THEN Some(self.player1)
    ELSE None

\* A new round that inherits the skip flags of the round it replaces.
start_round_keeps_flags(self, round_number, word) ==
    IF self.current_round = None
    THEN [self EXCEPT !.current_round = Some(Round(round_number, word))]
    ELSE [self EXCEPT !.current_round =
             Some([Unwrap(self.current_round) EXCEPT
                      !.number = round_number, !.word = word])]

start_round(self, round_number, word) ==
    [self EXCEPT !.current_round = Some(Round(round_number, word))]

\* A forgotten `self.current_round = None` on the correct-answer path.
submit_answer_keeps_round(self, player_id, answer) ==
    IF self.current_round = None THEN [s |-> self, r |-> None]
    ELSE LET round == Unwrap(self.current_round) IN
         IF ~check_answer(round, answer) THEN [s |-> self, r |-> None]
         ELSE [s |-> self,
               r |-> Some(RoundOutcome(Some(player_id), round.word.reading))]

\* Result: s is the session afterwards, r the Option<RoundOutcome> returned.
submit_answer(self, player_id, answer) ==
    IF self.current_round = None THEN [s |-> self, r |-> None]
    ELSE LET round == Unwrap(self.current_round) IN
         IF ~check_answer(round, answer) THEN [s |-> self, r |-> None]
         ELSE [s |-> [self EXCEPT !.current_round = None],
               r |-> Some(RoundOutcome(Some(player_id), round.word.reading))]

timeout_round_keeps_round(self) ==
    IF self.current_round = None THEN [s |-> self, r |-> None]
    ELSE [s |-> self,
          r |-> Some(RoundOutcome(None, Unwrap(self.current_round).word.reading))]

\* A timeout that credits player1 with the round.
timeout_round_names_winner(self) ==
    IF self.current_round = None THEN [s |-> self, r |-> None]
    ELSE [s |-> [self EXCEPT !.current_round = None],
          r |-> Some(RoundOutcome(Some(self.player1),
                                  Unwrap(self.current_round).word.reading))]

timeout_round(self) ==
    IF self.current_round = None THEN [s |-> self, r |-> None]
    ELSE [s |-> [self EXCEPT !.current_round = None],
          r |-> Some(RoundOutcome(None, Unwrap(self.current_round).word.reading))]

\* A skip that ends the round without waiting for the opponent.
record_skip_first_ends(self, player_id) ==
    IF self.current_round = None THEN [s |-> self, r |-> None]
    ELSE IF player_id # self.player1 /\ player_id # self.player2
    THEN [s |-> self, r |-> None]
    ELSE [s |-> [self EXCEPT !.current_round = None],
          r |-> Some(BothSkipped(RoundOutcome(None,
                         Unwrap(self.current_round).word.reading)))]

\* Result: s is the session afterwards, r the Option<SkipResult> returned.
record_skip(self, player_id) ==
    IF self.current_round = None THEN [s |-> self, r |-> None]
    ELSE LET round == Unwrap(self.current_round) IN
         IF player_id # self.player1 /\ player_id # self.player2
         THEN [s |-> self, r |-> None]
         ELSE LET isP1 == player_id = self.player1
                  already == IF isP1 THEN round.player1_skipped
                                      ELSE round.player2_skipped
                  marked == IF isP1 THEN [round EXCEPT !.player1_skipped = TRUE]
                                     ELSE [round EXCEPT !.player2_skipped = TRUE]
                  opponent == IF isP1 THEN marked.player2_skipped
                                       ELSE marked.player1_skipped
                  kept == [self EXCEPT !.current_round = Some(marked)]
              IN IF already THEN [s |-> kept, r |-> Some(AlreadySkipped)]
                 ELSE IF opponent
                 THEN [s |-> [self EXCEPT !.current_round = None],
                       r |-> Some(BothSkipped(RoundOutcome(None, marked.word.reading)))]
                 ELSE [s |-> kept, r |-> Some(WaitingForOpponent)]

current_round_number(self) ==
    IF self.current_round = None THEN None
    ELSE Some(Unwrap(self.current_round).number)

(***************************************************************************)
(* SpecSession: every sequence of calls on one GameSession.                 *)
(***************************************************************************)
\* Whether a returned value carries a RoundOutcome.
ProducedOutcome(op, r) ==
    /\ IsSome(r)
    /\ op = "record_skip" => Unwrap(r).tag = "BothSkipped"

Bump(n) == IF n < 2 THEN n + 1 ELSE n

NoCall == [op |-> "new", player |-> "", answer |-> "", ret |-> None]

SessionInit ==
    /\ gs = GameSession_new("alice", "bob")
    /\ last = NoCall
    /\ outcomes = 0

SessionStartRound ==
    \E n \in 1..MaxRoundNumber, w \in Words :
        /\ gs' = start_round(gs, n, w)
        /\ last' = [op |-> "start_round", player |-> "", answer |-> "", ret |-> None]
        /\ outcomes' = 0
        /\ UNCHANGED <<lobbyVars, gameVars, ephVars, matchVars, discCalls, outbox, gen>>

SessionSubmitAnswer ==
    \E p \in PlayerIds, a \in Answers :
        LET res == submit_answer(gs, p, a) IN
        /\ gs' = res.s
        /\ last' = [op |-> "submit_answer", player |-> p, answer |-> a, ret |-> res.r]
        /\ outcomes' = IF ProducedOutcome("submit_answer", res.r)
                       THEN Bump(outcomes) ELSE outcomes
        /\ UNCHANGED <<lobbyVars, gameVars, ephVars, matchVars, discCalls, outbox, gen>>

SessionTimeoutRound ==
    LET res == timeout_round(gs) IN
    /\ gs' = res.s
    /\ last' = [op |-> "timeout_round", player |-> "", answer |-> "", ret |-> res.r]
    /\ outcomes' = IF ProducedOutcome("timeout_round", res.r)
                   THEN Bump(outcomes) ELSE outcomes
    /\ UNCHANGED <<lobbyVars, gameVars, ephVars, matchVars, discCalls, outbox, gen>>

SessionRecordSkip ==
    \E p \in PlayerIds :
        LET res == record_skip(gs, p) IN
        /\ gs' = res.s
        /\ last' = [op |-> "record_skip", player |-> p, answer |-> "", ret |-> res.r]
        /\ outcomes' = IF ProducedOutcome("record_skip", res.r)
                       THEN Bump(outcomes) ELSE outcomes
        /\ UNCHANGED <<lobbyVars, gameVars, ephVars, matchVars, discCalls, outbox, gen>>

SessionRecordWin ==
    \E p \in PlayerIds :
        /\ gs.scores[1] < WINS_NEEDED + MaxExtraWins
        /\ gs.scores[2] < WINS_NEEDED + MaxExtraWins
        /\ gs' = record_win(gs, p)
        /\ last' = [op |-> "record_win", player |-> p, answer |-> "", ret |-> None]
        /\ UNCHANGED outcomes
        /\ UNCHANGED <<lobbyVars, gameVars, ephVars, matchVars, discCalls, outbox, gen>>

SessionNext ==
    \/ SessionStartRound
    \/ SessionSubmitAnswer
    \/ SessionTimeoutRound
    \/ SessionRecordSkip
    \/ SessionRecordWin

(***************************************************************************)
(* matchmaking.rs: Lobby, a Mutex<Option<String>>.  A caller takes the      *)
(* mutex on entry and holds it until it returns.                            *)
(***************************************************************************)
Callers == 1..NumCallers

Waiting == [tag |-> "Waiting", opponent_id |-> ""]
Matched(opponent_id) == [tag |-> "Matched", opponent_id |-> opponent_id]
Unit == [tag |-> "()", opponent_id |-> ""]

IdlePc ==
    [at |-> "idle", op |-> "", user |-> "", pre |-> None, taken |-> None,
     overlap |-> FALSE]

\* A Lobby whose operations do not take the mutex.
LobbyMutexFree_unlocked(holder) == TRUE

\* self.waiting.lock(): the mutex can be taken when nobody holds it.
LobbyMutexFree(holder) == holder = None

\* `waiting.take()` replaced by a read that leaves the occupant in the slot.
try_match_take_peek(slot) == [slot |-> slot, taken |-> slot]

\* let Some(opponent_id) = waiting.take()
try_match_take(slot) == [slot |-> None, taken |-> slot]

\* The rest of try_match, given what take() returned.
try_match_finish(slot, taken, user_id) ==
    IF taken = None
    THEN [slot |-> Some(user_id), r |-> Waiting]
    ELSE [slot |-> slot, r |-> Matched(Unwrap(taken))]

\* remove_waiting that clears the slot whoever occupies it.
remove_waiting_body_any(slot, user_id) == None

\* if waiting.as_deref() == Some(user_id) { *waiting = None; }
remove_waiting_body(slot, user_id) ==
    IF slot = Some(user_id) THEN None ELSE slot

LobbyInit ==
    /\ waiting = None
    /\ lobbyHolder = None
    /\ lobbyPc = [c \in Callers |-> IdlePc]
    /\ lobbyLog = <<>>

\* A caller invokes try_match(user) or remove_waiting(user).  `overlap` records
\* that another call was in progress at some moment of this call.
LobbyCall(c) ==
    \E op \in {"try_match", "remove_waiting"}, u \in PlayerIds :
        LET busy == {d \in Callers : lobbyPc[d].at # "idle"} IN
        /\ lobbyPc[c].at = "idle"
        /\ Len(lobbyLog) + Cardinality(busy) < MaxLobbyOps
        /\ lobbyPc' = [d \in Callers |->
               IF d = c
               THEN [at |-> "calling", op |-> op, user |-> u, pre |-> None,
                     taken |-> None, overlap |-> busy # {}]
               ELSE IF d \in busy THEN [lobbyPc[d] EXCEPT !.overlap = TRUE]
               ELSE lobbyPc[d]]
        /\ UNCHANGED <<waiting, lobbyHolder, lobbyLog>>
        /\ UNCHANGED <<sessionVars, gameVars, ephVars, matchVars, discCalls, outbox, gen>>

\* let mut waiting = self.waiting.lock().unwrap();
LobbyLock(c) ==
    /\ lobbyPc[c].at = "calling"
    /\ LobbyMutexFree(lobbyHolder)
    /\ lobbyHolder' = Some(c)
    /\ lobbyPc' = [lobbyPc EXCEPT ![c].at = "locked", ![c].pre = waiting]
    /\ UNCHANGED <<waiting, lobbyLog>>
    /\ UNCHANGED <<sessionVars, gameVars, ephVars, matchVars, discCalls, outbox, gen>>

TryMatchTake(c) ==
    /\ lobbyPc[c].at = "locked"
    /\ lobbyPc[c].op = "try_match"
    /\ LET res == try_match_take(waiting) IN
       /\ waiting' = res.slot
       /\ lobbyPc' = [lobbyPc EXCEPT ![c].at = "taken", ![c].taken = res.taken]
    /\ UNCHANGED <<lobbyHolder, lobbyLog>>
    /\ UNCHANGED <<sessionVars, gameVars, ephVars, matchVars, discCalls, outbox, gen>>

TryMatchReturn(c) ==
    /\ lobbyPc[c].at = "taken"
    /\ LET res == try_match_finish(waiting, lobbyPc[c].taken, lobbyPc[c].user) IN
       /\ waiting' = res.slot
       /\ lobbyLog' = Append(lobbyLog,
              [op |-> "try_match", user |-> lobbyPc[c].user, ret |-> res.r,
               pre |-> lobbyPc[c].pre, post |-> res.slot,
               overlap |-> lobbyPc[c].overlap])
    /\ lobbyHolder' = None
    /\ lobbyPc' = [lobbyPc EXCEPT ![c] = IdlePc]
    /\ UNCHANGED <<sessionVars, gameVars, ephVars, matchVars, discCalls, outbox, gen>>

RemoveWaitingReturn(c) ==
    /\ lobbyPc[c].at = "locked"
    /\ lobbyPc[c].op = "remove_waiting"
    /\ LET slot == remove_waiting_body(waiting, lobbyPc[c].user) IN
       /\ waiting' = slot
       /\ lobbyLog' = Append(lobbyLog,
              [op |-> "remove_waiting", user |-> lobbyPc[c].user, ret |-> Unit,
               pre |-> waiting, post |-> slot,
               overlap |-> lobbyPc[c].overlap])
    /\ lobbyHolder' = None
    /\ lobbyPc' = [lobbyPc EXCEPT ![c] = IdlePc]
    /\ UNCHANGED <<sessionVars, gameVars, ephVars, matchVars, discCalls, outbox, gen>>

LobbyNext ==
    \E c \in Callers :
        \/ LobbyCall(c)
        \/ LobbyLock(c)
        \/ TryMatchTake(c)
        \/ TryMatchReturn(c)
        \/ RemoveWaitingReturn(c)

(***************************************************************************)
(* engine/active_game.rs and engine/registry.rs: one registered game, the   *)
(* handle_answer tasks of its two connections, its round timeout tasks and  *)
(* the disconnect handling of ephemeral/state.rs.                           *)
(*                                                                          *)
(* A DashMap operation is atomic.  A step below is one DashMap operation    *)
(* with the code that runs while its guard is held, or a run of code up to  *)
(* the next .await.                                                         *)
(***************************************************************************)
GamePlayers == {"alice", "bob"}
GameId == "g1"

\* A remove that leaves the entry in the map.
Remove_keeps(f, k) == f

Remove(f, k) == [x \in DOMAIN f \ {k} |-> f[x]]

Msg(type, round, winner, text) ==
    [type |-> type, round |-> round, winner |-> winner, text |-> text]
RoundStartMsg(kanji, round) == Msg("RoundStart", round, None, kanji)
RoundResultMsg(winner, correct_reading) == Msg("RoundResult", 0, winner, correct_reading)
GameEndMsg(winner) == Msg("GameEnd", 0, winner, "")
OpponentDisconnectedMsg == Msg("OpponentDisconnected", 0, None, "")

\* A send that reaches every observed connection.
Send_all(box, ch, msg) == [x \in DOMAIN box |-> Append(box[x], msg)]

\* tx.send(msg) on the channel of connection ch; the traffic of a connection
\* that is not observed is not recorded.
Send(box, ch, msg) ==
    IF ch \in DOMAIN box THEN [box EXCEPT ![ch] = Append(@, msg)] ELSE box

GameCreatedMsg(game_id) == Msg("GameCreated", 0, None, game_id)
WaitingForOpponentMsg == Msg("WaitingForOpponent", 0, None, "")
\* GameNotFound has no field; text notes the code that was asked for.
GameNotFoundMsg(asked) == Msg("GameNotFound", 0, None, asked)
OpponentJoinedMsg(opponent_name) == Msg("OpponentJoined", 0, None, opponent_name)
GameStartMsg(opponent) == Msg("GameStart", 0, None, opponent)
WaitingMsg == Msg("Waiting", 0, None, "")
WrongAnswerMsg == Msg("WrongAnswer", 0, None, "")

\* GameRegistry::submit_answer.  r is the Option<AnswerResult>.
Registry_submit_answer(gms, pgs, user_id, answer) ==
    IF user_id \notin DOMAIN pgs THEN [games |-> gms, r |-> None]
    ELSE LET game_id == pgs[user_id] IN
         IF game_id \notin DOMAIN gms THEN [games |-> gms, r |-> None]
         ELSE LET res == submit_answer(gms[game_id], user_id, answer) IN
              IF res.r = None THEN [games |-> gms, r |-> None]
              ELSE LET outcome == Unwrap(res.r)
                       won == IF IsSome(outcome.winner)
                              THEN record_win(res.s, Unwrap(outcome.winner))
                              ELSE res.s
                   IN [games |-> [gms EXCEPT ![game_id] = won],
                       r |-> Some([round_result |->
                                       RoundResultMsg(outcome.winner,
                                                      outcome.correct_reading),
                                   game_winner |-> game_winner(won),
                                   round_number |-> won.scores[1] + won.scores[2]])]

\* GameRegistry::broadcast_to_game: the messages that reach the game.
broadcast_to_game(gms, pgs, user_id, msg) ==
    IF user_id \in DOMAIN pgs /\ pgs[user_id] \in DOMAIN gms THEN <<msg>> ELSE <<>>

\* A timeout task that announces a result without looking the game up.
timeout_block_blind(gms, game_id, round_number) ==
    [games |-> gms, r |-> None, msgs |-> <<RoundResultMsg(None, "")>>]

\* A timeout task that returns without timing the round out.
timeout_block_never(gms, game_id, round_number) ==
    [games |-> gms, r |-> None, msgs |-> <<>>]

\* handle_round_timeout, the block that holds games.get_mut(&game_id).
\* r is Some(game_winner) when the round was timed out here.
timeout_block(gms, game_id, round_number) ==
    IF game_id \notin DOMAIN gms
    THEN [games |-> gms, r |-> None, msgs |-> <<>>]
    ELSE IF current_round_number(gms[game_id]) # Some(round_number)
    THEN [games |-> gms, r |-> None, msgs |-> <<>>]
    ELSE LET res == timeout_round(gms[game_id]) IN
         IF res.r = None THEN [games |-> gms, r |-> None, msgs |-> <<>>]
         ELSE [games |-> [gms EXCEPT ![game_id] = res.s],
               r |-> Some(game_winner(res.s)),
               msgs |-> <<RoundResultMsg(Unwrap(res.r).winner,
                                         Unwrap(res.r).correct_reading)>>]

\* continue_or_end_game at MAX_ROUNDS: the winner by score comparison.
score_winner(session) ==
    IF session.scores[1] > session.scores[2] THEN Some(session.player1)
    ELSE IF session.scores[1] < session.scores[2] THEN Some(session.player2)
    ELSE None

\* A continue_or_end_game that never ends the game.
continue_or_end_game_on(gms, game_id, game_winner_, round_number) ==
    [next |-> TRUE, msgs |-> <<>>]

\* continue_or_end_game up to words.get_random(): whether a next round is to
\* be started, and the GameEnd broadcast otherwise.
continue_or_end_game(gms, game_id, game_winner_, round_number) ==
    IF IsSome(game_winner_)
    THEN [next |-> FALSE,
          msgs |-> IF game_id \in DOMAIN gms
                   THEN <<GameEndMsg(game_winner_)>> ELSE <<>>]
    ELSE IF round_number >= MAX_ROUNDS
    THEN [next |-> FALSE,
          msgs |-> IF game_id \in DOMAIN gms
                   THEN <<GameEndMsg(score_winner(gms[game_id]))>> ELSE <<>>]
    ELSE [next |-> TRUE, msgs |-> <<>>]

\* let next_round = round_number + 1;
next_round(round_number) == round_number + 1

\* words.get_random(): a word, or None when the query fails or finds no row.
WordResults == {Some(w) : w \in Words} \cup {None}

IdleAns ==
    [pc |-> "idle", game_id |-> "", game_winner |-> None, round_number |-> 0,
     word |-> None, msg |-> None, res |-> 0]
OpenConn == [at |-> "open", game_id |-> "", game |-> None]
ClosedConn == [at |-> "closed", game_id |-> "", game |-> None]

\* A spawned timeout task.  rid is the index in hist of the round it was armed
\* for (0 when no round was started), res the round it timed out.
Timer(rid, game_id, round_number) ==
    [rid |-> rid, game_id |-> game_id, round |-> round_number, pc |-> "sleeping",
     game_winner |-> None, word |-> None, res |-> 0]

NewHist(number) ==
    [number |-> number, by |-> "", resolved |-> 0, timer |-> 0,
     results |-> 0, conts |-> 0, noword |-> 0]

\* A task that goes on with a word of its own when the word source has none.
LetSomeWord_fallback(w) ==
    IF w = None THEN Some(CHOOSE x \in Words : TRUE) ELSE w

\* let Some(word) = words.get_random().await else { return; }: the word the
\* task goes on with, None when it returns.
LetSomeWord(w) == w

\* History: the continuation of round rid has asked for a word; w is what
\* the word source returned.
Continued(h, rid, w) ==
    [h EXCEPT ![rid].conts = Bump(@),
              ![rid].noword = IF w = None THEN Bump(@) ELSE @]

Resolve(h, rid, by, timer) ==
    [h EXCEPT ![rid].resolved = Bump(@), ![rid].by = by, ![rid].timer = timer]

\* The end of continue_or_end_game and of start_first_round: start the round
\* if the game is still registered, and spawn its timeout task in any case.
StartRoundAndSpawn(game_id, number, word, announce, otherTimers) ==
    IF game_id \in DOMAIN games
    THEN /\ Len(hist) < MaxStarts
         /\ games' = [games EXCEPT ![game_id] = start_round(@, number, word)]
         /\ bcast' = IF announce
                     THEN Append(bcast, RoundStartMsg(word.kanji, number))
                     ELSE bcast
         /\ hist' = Append(hist, NewHist(number))
         /\ curRid' = Len(hist) + 1
         /\ timers' = otherTimers \cup {Timer(Len(hist) + 1, game_id, number)}
    ELSE /\ timers' = otherTimers \cup {Timer(0, game_id, number)}
         /\ UNCHANGED <<games, bcast, hist, curRid>>

---------------------------------------------------------------------------
\* GameRegistry::start_first_round: words.get_random().await
FirstWord ==
    /\ first.pc = "word"
    /\ \E w \in WordResults :
          first' = IF LetSomeWord(w) = None
                   THEN [pc |-> "done", word |-> None, failed |-> w = None]
                   ELSE [pc |-> "send", word |-> LetSomeWord(w),
                         failed |-> w = None]
    /\ UNCHANGED <<games, player_games, ans, conn, timers, bcast, hist, curRid, origin>>
    /\ UNCHANGED <<sessionVars, lobbyVars, ephVars, matchVars, discCalls, outbox, gen>>

\* start_first_round: RoundStart { round: 1 } sent on both players' channels.
FirstSend ==
    /\ first.pc = "send"
    /\ bcast' = Append(bcast, RoundStartMsg(Unwrap(first.word).kanji, 1))
    /\ first' = [first EXCEPT !.pc = "start"]
    /\ UNCHANGED <<games, player_games, ans, conn, timers, hist, curRid, origin>>
    /\ UNCHANGED <<sessionVars, lobbyVars, ephVars, matchVars, discCalls, outbox, gen>>

\* start_first_round: games.get_mut(game_id), start_round(1, word), spawn.
FirstStart ==
    /\ first.pc = "start"
    /\ StartRoundAndSpawn(GameId, 1, Unwrap(first.word), FALSE, timers)
    /\ first' = [first EXCEPT !.pc = "done", !.word = None]
    /\ UNCHANGED <<player_games, ans, conn, origin>>
    /\ UNCHANGED <<sessionVars, lobbyVars, ephVars, matchVars, discCalls, outbox, gen>>

\* handle_answer: self.submit_answer(user_id, answer); a None result sends
\* WrongAnswer to the sender and ends the task.
AnswerSubmit(p) ==
    \E a \in Answers :
        LET res == Registry_submit_answer(games, player_games, p, a) IN
        /\ conn[p].at = "open"
        /\ ans[p].pc = "idle"
        /\ IsSome(res.r)
        /\ games' = res.games
        /\ ans' = [ans EXCEPT ![p] =
               [pc |-> "broadcast", game_id |-> "",
                game_winner |-> Unwrap(res.r).game_winner,
                round_number |-> Unwrap(res.r).round_number,
                word |-> None, msg |-> Some(Unwrap(res.r).round_result),
                res |-> curRid]]
        /\ hist' = Resolve(hist, curRid, "answer", 0)
        /\ UNCHANGED <<player_games, conn, timers, first, bcast, curRid, origin>>
        /\ UNCHANGED <<sessionVars, lobbyVars, ephVars, matchVars, discCalls, outbox, gen>>

\* handle_answer: self.submit_answer(user_id, answer) returned None:
\* tx.send(ServerMessage::WrongAnswer) on the sender's channel, and return.
AnswerWrong(p) ==
    \E a \in Answers :
        LET res == Registry_submit_answer(games, player_games, p, a) IN
        /\ conn[p].at = "open"
        /\ ans[p].pc = "idle"
        /\ res.r = None
        /\ p \in DOMAIN outbox => Len(outbox[p]) < MaxWrongAnswers
        /\ games' = res.games
        /\ outbox' = Send(outbox, p, WrongAnswerMsg)
        /\ UNCHANGED <<player_games, ans, conn, timers, first, bcast, hist, curRid,
                       origin>>
        /\ UNCHANGED <<sessionVars, lobbyVars, ephVars, matchVars, discCalls, gen>>

\* handle_answer: self.broadcast_to_game(user_id, result.round_result)
AnswerBroadcast(p) ==
    LET msgs == broadcast_to_game(games, player_games, p, Unwrap(ans[p].msg)) IN
    /\ ans[p].pc = "broadcast"
    /\ bcast' = bcast \o msgs
    /\ hist' = IF msgs = <<>> THEN hist
               ELSE [hist EXCEPT ![ans[p].res].results = Bump(@)]
    /\ ans' = [ans EXCEPT ![p].pc = "continue", ![p].msg = None]
    /\ UNCHANGED <<games, player_games, conn, timers, first, curRid, origin>>
    /\ UNCHANGED <<sessionVars, lobbyVars, ephVars, matchVars, discCalls, outbox, gen>>

\* handle_answer: the player_games lookup, then continue_or_end_game up to
\* words.get_random().await.
AnswerContinue(p) ==
    /\ ans[p].pc = "continue"
    /\ IF p \notin DOMAIN player_games
       THEN /\ ans' = [ans EXCEPT ![p] = IdleAns]
            /\ UNCHANGED <<bcast, hist>>
       ELSE LET game_id == player_games[p]
                d == continue_or_end_game(games, game_id, ans[p].game_winner,
                                          ans[p].round_number)
            IN /\ bcast' = bcast \o d.msgs
               /\ IF d.next
                  THEN \E w \in WordResults :
                          /\ hist' = Continued(hist, ans[p].res, w)
                          /\ ans' = [ans EXCEPT ![p] =
                                 IF LetSomeWord(w) = None THEN IdleAns
                                 ELSE [ans[p] EXCEPT !.pc = "start",
                                                     !.word = LetSomeWord(w),
                                                     !.game_id = game_id]]
                  ELSE /\ hist' = [hist EXCEPT ![ans[p].res].conts = Bump(@)]
                       /\ ans' = [ans EXCEPT ![p] = IdleAns]
    /\ UNCHANGED <<games, player_games, conn, timers, first, curRid, origin>>
    /\ UNCHANGED <<sessionVars, lobbyVars, ephVars, matchVars, discCalls, outbox, gen>>

\* continue_or_end_game: games.get_mut(game_id), RoundStart, start_round, spawn.
AnswerStart(p) ==
    /\ ans[p].pc = "start"
    /\ StartRoundAndSpawn(ans[p].game_id, next_round(ans[p].round_number),
                          Unwrap(ans[p].word), TRUE, timers)
    /\ ans' = [ans EXCEPT ![p] = IdleAns]
    /\ UNCHANGED <<player_games, conn, first, origin>>
    /\ UNCHANGED <<sessionVars, lobbyVars, ephVars, matchVars, discCalls, outbox, gen>>

\* The sleep of a timeout task ends: handle_round_timeout up to the end of the
\* games.get_mut block.  A task that times nothing out ends.
TimerFire(t) ==
    LET res == timeout_block(games, t.game_id, t.round) IN
    /\ t.pc = "sleeping"
    /\ games' = res.games
    /\ bcast' = bcast \o res.msgs
    /\ IF res.r = None
       THEN /\ timers' = timers \ {t}
            /\ UNCHANGED hist
       ELSE /\ timers' = (timers \ {t}) \cup
                 {[t EXCEPT !.pc = "continue", !.game_winner = Unwrap(res.r),
                            !.res = curRid]}
            /\ hist' = [Resolve(hist, curRid, "timeout", t.rid)
                           EXCEPT ![curRid].results = Bump(@)]
    /\ UNCHANGED <<player_games, ans, conn, first, curRid, origin>>
    /\ UNCHANGED <<sessionVars, lobbyVars, ephVars, matchVars, discCalls, outbox, gen>>

\* handle_round_timeout: continue_or_end_game up to words.get_random().await.
TimerContinue(t) ==
    LET d == continue_or_end_game(games, t.game_id, t.game_winner, t.round) IN
    /\ t.pc = "continue"
    /\ bcast' = bcast \o d.msgs
    /\ IF d.next
       THEN \E w \in WordResults :
               /\ hist' = Continued(hist, t.res, w)
               /\ timers' = IF LetSomeWord(w) = None THEN timers \ {t}
                            ELSE (timers \ {t}) \cup
                                     {[t EXCEPT !.pc = "start",
                                                !.word = LetSomeWord(w)]}
       ELSE /\ hist' = [hist EXCEPT ![t.res].conts = Bump(@)]
            /\ timers' = timers \ {t}
    /\ UNCHANGED <<games, player_games, ans, conn, first, curRid, origin>>
    /\ UNCHANGED <<sessionVars, lobbyVars, ephVars, matchVars, discCalls, outbox, gen>>

\* continue_or_end_game: games.get_mut(game_id), RoundStart, start_round, spawn.
TimerStart(t) ==
    /\ t.pc = "start"
    /\ StartRoundAndSpawn(t.game_id, next_round(t.round), Unwrap(t.word), TRUE,
                          timers \ {t})
    /\ UNCHANGED <<player_games, ans, conn, first, origin>>
    /\ UNCHANGED <<sessionVars, lobbyVars, ephVars, matchVars, discCalls, outbox, gen>>

\* The connection of p ends and EphemeralState::handle_disconnect(p) runs:
\* registry.player_games.remove(user_id)
DisconnectBegin(p) ==
    /\ conn[p].at = "open"
    /\ ans[p].pc = "idle"
    /\ IF p \in DOMAIN player_games
       THEN /\ conn' = [conn EXCEPT ![p] =
                   [at |-> "removed_player", game_id |-> player_games[p],
                    game |-> None]]
            /\ player_games' = Remove(player_games, p)
       ELSE /\ conn' = [conn EXCEPT ![p] = ClosedConn]
            /\ UNCHANGED player_games
    /\ UNCHANGED <<games, ans, timers, first, bcast, hist, curRid, origin>>
    /\ UNCHANGED <<sessionVars, lobbyVars, ephVars, matchVars, discCalls, outbox, gen>>

\* handle_disconnect: registry.games.remove(&game_id)
DisconnectRemoveGame(p) ==
    /\ conn[p].at = "removed_player"
    /\ IF conn[p].game_id \in DOMAIN games
       THEN /\ conn' = [conn EXCEPT ![p].at = "removed_game",
                                    ![p].game = Some(games[conn[p].game_id])]
            /\ games' = Remove(games, conn[p].game_id)
       ELSE /\ conn' = [conn EXCEPT ![p] = ClosedConn]
            /\ UNCHANGED games
    /\ UNCHANGED <<player_games, ans, timers, first, bcast, hist, curRid, origin>>
    /\ UNCHANGED <<sessionVars, lobbyVars, ephVars, matchVars, discCalls, outbox, gen>>

\* handle_disconnect: opponent_of, player_games.remove(opponent_id), and
\* OpponentDisconnected on the channels of the removed game.
DisconnectNotify(p) ==
    /\ conn[p].at = "removed_game"
    /\ LET opp == opponent_of(Unwrap(conn[p].game), p) IN
       IF opp = None
       THEN UNCHANGED <<player_games, bcast>>
       ELSE /\ player_games' = Remove(player_games, Unwrap(opp))
            /\ bcast' = Append(bcast, OpponentDisconnectedMsg)
    /\ conn' = [conn EXCEPT ![p] = ClosedConn]
    /\ UNCHANGED <<games, ans, timers, first, hist, curRid, origin>>
    /\ UNCHANGED <<sessionVars, lobbyVars, ephVars, matchVars, discCalls, outbox, gen>>

\* handle_disconnect(p) / remove_player_from_game(p) is called once more for a
\* player whose disconnect was already handled:
\* registry.player_games.remove(user_id)
DisconnectAgain(p) ==
    /\ conn[p].at = "closed"
    /\ discCalls[p] < MaxDisconnectCalls
    /\ discCalls' = [discCalls EXCEPT ![p] = @ + 1]
    /\ IF p \in DOMAIN player_games
       THEN /\ conn' = [conn EXCEPT ![p] =
                   [at |-> "removed_player", game_id |-> player_games[p],
                    game |-> None]]
            /\ player_games' = Remove(player_games, p)
       ELSE /\ conn' = [conn EXCEPT ![p] = ClosedConn]
            /\ UNCHANGED player_games
    /\ UNCHANGED <<games, ans, timers, first, bcast, hist, curRid, origin>>
    /\ UNCHANGED <<sessionVars, lobbyVars, ephVars, matchVars>>
    /\ UNCHANGED <<outbox, gen>>

\* The positions a game starts from: a game just created by join_game, or a
\* game late in its course, with round `number` active and its timeout armed.
\* A late position with scores (a, b) and round n, a + b + 1 <= n, is reached
\* by a + b rounds won by correct answers followed by n - a - b - 1 timeouts.
LatePositions ==
    {[fresh |-> FALSE, scores |-> <<WINS_NEEDED - 1, WINS_NEEDED - 1>>,
      number |-> MAX_ROUNDS - 1],
     [fresh |-> FALSE, scores |-> <<WINS_NEEDED - 1, WINS_NEEDED - 2>>,
      number |-> MAX_ROUNDS],
     [fresh |-> FALSE, scores |-> <<WINS_NEEDED - 2, WINS_NEEDED - 1>>,
      number |-> MAX_ROUNDS]}
FreshPosition == [fresh |-> TRUE, scores |-> <<0, 0>>, number |-> 0]

FirstWordOf == CHOOSE w \in Words : w.kanji = "k1"

GameInit ==
    /\ origin \in LatePositions \cup {FreshPosition}
    /\ player_games = [p \in GamePlayers |-> GameId]
    /\ ans = [p \in GamePlayers |-> IdleAns]
    /\ conn = [p \in GamePlayers |-> OpenConn]
    /\ IF origin.fresh
       THEN /\ games = [g \in {GameId} |-> GameSession_new("alice", "bob")]
            /\ first = [pc |-> "word", word |-> None, failed |-> FALSE]
            /\ timers = {}
            /\ bcast = <<>>
            /\ hist = <<>>
            /\ curRid = 0
       ELSE /\ games = [g \in {GameId} |->
                   [GameSession_new("alice", "bob") EXCEPT
                       !.scores = origin.scores,
                       !.current_round = Some(Round(origin.number, FirstWordOf))]]
            /\ first = [pc |-> "done", word |-> None, failed |-> FALSE]
            /\ timers = {Timer(1, GameId, origin.number)}
            /\ bcast = <<RoundStartMsg(FirstWordOf.kanji, origin.number)>>
            /\ hist = <<NewHist(origin.number)>>
            /\ curRid = 1

\* The game part at rest, for the specifications that do not run it.
GameParked ==
    /\ origin = FreshPosition
    /\ player_games = <<>>
    /\ games = <<>>
    /\ ans = [p \in GamePlayers |-> IdleAns]
    /\ conn = [p \in GamePlayers |-> OpenConn]
    /\ first = [pc |-> "done", word |-> None, failed |-> FALSE]
    /\ timers = {}
    /\ bcast = <<>>
    /\ hist = <<>>
    /\ curRid = 0

GameNext ==
    \/ FirstWord
    \/ FirstSend
    \/ FirstStart
    \/ \E p \in GamePlayers :
          \/ AnswerSubmit(p)
          \/ AnswerWrong(p)
          \/ AnswerBroadcast(p)
          \/ AnswerContinue(p)
          \/ AnswerStart(p)
          \/ DisconnectBegin(p)
          \/ DisconnectRemoveGame(p)
          \/ DisconnectNotify(p)
    \/ \E t \in timers :
          \/ TimerFire(t)
          \/ TimerContinue(t)
          \/ TimerStart(t)

\* Every timeout task sleeps for the same round_timeout, so the tasks wake in
\* the order in which they were spawned.
FirstArmed(t) ==
    \A u \in timers :
        (u.pc = "sleeping" /\ u.rid # 0 /\ t.rid # 0) => u.rid >= t.rid

TimerFireInOrder(t) == FirstArmed(t) /\ TimerFire(t)

GameNextInOrder ==
    \/ FirstWord
    \/ FirstSend
    \/ FirstStart
    \/ \E p \in GamePlayers :
          \/ AnswerSubmit(p)
          \/ AnswerWrong(p)
          \/ AnswerBroadcast(p)
          \/ AnswerContinue(p)
          \/ AnswerStart(p)
          \/ DisconnectBegin(p)
          \/ DisconnectRemoveGame(p)
          \/ DisconnectNotify(p)
    \/ \E t \in timers :
          \/ TimerFireInOrder(t)
          \/ TimerContinue(t)
          \/ TimerStart(t)

(***************************************************************************)
(* ephemeral/state.rs and ephemeral/ws_handler.rs: the pending games and    *)
(* the two registry maps, driven by the CreateGame and JoinGame messages of *)
(* the connections, their disconnects, and GameRegistry::cleanup_game.      *)
(* Every DashMap operation is one step.                                     *)
(***************************************************************************)
Conns == {"c1", "c2"}
DisplayNames == {"alice", "bob"}
Codes == {"g1", "g2"}

IdleEph ==
    [pc |-> "idle", user_id |-> None, code |-> "", host |-> "", guest |-> "",
     host_tx |-> "", game |-> None]

IdleCleanup == [pc |-> "idle", game_id |-> "", game |-> None]

Insert(f, k, v) == [x \in DOMAIN f \cup {k} |-> IF x = k THEN v ELSE f[x]]

\* A guest that always gets the name it asked for.
guest_name_as_requested(player_name, host_name) == player_name

\* join_game: the guest's player id.
guest_name(player_name, host_name) ==
    IF player_name = host_name THEN player_name \o " (2)" ELSE player_name

\* generate_unique_game_id(|id| self.pending_games.contains_key(id)): the
\* codes the loop can return.
generate_unique_game_id(pending) == Codes \ DOMAIN pending

EphInit ==
    /\ pending_games = <<>>
    /\ econn = [c \in Conns |-> IdleEph]
    /\ cleanup = IdleCleanup
    /\ ephMsgs = 0

\* CreateGame { player_name }: ctx.user_id is set and a code is generated.
EphCreateGenerate(c) ==
    \E name \in DisplayNames, code \in generate_unique_game_id(pending_games) :
        /\ econn[c].pc = "idle"
        /\ ephMsgs < MaxEphMsgs
        /\ ephMsgs' = ephMsgs + 1
        /\ econn' = [econn EXCEPT ![c].pc = "create_insert",
                                  ![c].user_id = Some(name),
                                  ![c].code = code, ![c].host = name]
        /\ UNCHANGED <<pending_games, cleanup, games, player_games>>
        /\ UNCHANGED <<sessionVars, lobbyVars, gameAux, matchVars, discCalls, outbox, gen>>

\* create_game: self.pending_games.insert(game_id, pending)
EphCreateInsert(c) ==
    /\ econn[c].pc = "create_insert"
    /\ pending_games' = Insert(pending_games, econn[c].code,
                               [host |-> econn[c].host, conn |-> c])
    /\ econn' = [econn EXCEPT ![c].pc = "create_send"]
    /\ UNCHANGED <<cleanup, games, player_games, ephMsgs>>
    /\ UNCHANGED <<sessionVars, lobbyVars, gameAux, matchVars, discCalls, outbox, gen>>

\* CreateGame, after create_game returned: GameCreated { game_id } and
\* WaitingForOpponent are sent to the host.
EphCreateSend(c) ==
    /\ econn[c].pc = "create_send"
    /\ outbox' = Send(Send(outbox, c, GameCreatedMsg(econn[c].code)),
                      c, WaitingForOpponentMsg)
    /\ econn' = [econn EXCEPT ![c].pc = "idle", ![c].code = "", ![c].host = ""]
    /\ UNCHANGED <<pending_games, cleanup, games, player_games, ephMsgs>>
    /\ UNCHANGED <<sessionVars, lobbyVars, gameAux, matchVars, discCalls, gen>>

\* A join that leaves the pending game in the map.
TakePending_peek(pending, game_id) ==
    IF game_id \in DOMAIN pending
    THEN [pending |-> pending, r |-> Some(pending[game_id])]
    ELSE [pending |-> pending, r |-> None]

\* join_game: self.pending_games.remove(game_id)
TakePending(pending, game_id) ==
    IF game_id \in DOMAIN pending
    THEN [pending |-> Remove(pending, game_id), r |-> Some(pending[game_id])]
    ELSE [pending |-> pending, r |-> None]

\* JoinGame { game_id, player_name } with a code that is not pending:
\* self.pending_games.remove(game_id)? is None and the handler sends
\* GameNotFound to the sender.
EphJoinNotFound(c) ==
    \E code \in Codes, name \in DisplayNames :
        /\ econn[c].pc = "idle"
        /\ TakePending(pending_games, code).r = None
        /\ ephMsgs < MaxEphMsgs
        /\ ephMsgs' = ephMsgs + 1
        /\ pending_games' = TakePending(pending_games, code).pending
        /\ outbox' = Send(outbox, c, GameNotFoundMsg(code))
        /\ UNCHANGED <<econn, cleanup, games, player_games>>
        /\ UNCHANGED <<sessionVars, lobbyVars, gameAux, matchVars, discCalls, gen>>

\* JoinGame { game_id, player_name }: self.pending_games.remove(game_id)?
EphJoinRemove(c) ==
    \E code \in Codes, name \in DisplayNames :
        LET taken == TakePending(pending_games, code) IN
        /\ econn[c].pc = "idle"
        /\ IsSome(taken.r)
        /\ ephMsgs < MaxEphMsgs
        /\ ephMsgs' = ephMsgs + 1
        /\ pending_games' = taken.pending
        /\ econn' = [econn EXCEPT ![c].pc = "join_game", ![c].code = code,
                        ![c].host = Unwrap(taken.r).host,
                        ![c].host_tx = Unwrap(taken.r).conn,
                        ![c].guest = guest_name(name, Unwrap(taken.r).host)]
        /\ UNCHANGED <<cleanup, games, player_games>>
        /\ UNCHANGED <<sessionVars, lobbyVars, gameAux, matchVars, discCalls, outbox, gen>>

\* join_game: self.registry.games.insert(game_id, game)
EphJoinInsertGame(c) ==
    /\ econn[c].pc = "join_game"
    /\ games' = Insert(games, econn[c].code,
                       GameSession_new(econn[c].host, econn[c].guest))
    /\ econn' = [econn EXCEPT ![c].pc = "join_host"]
    /\ UNCHANGED <<pending_games, cleanup, player_games, ephMsgs>>
    /\ UNCHANGED <<sessionVars, lobbyVars, gameAux, matchVars, discCalls, outbox, gen>>

\* join_game: player_games.insert(host_name, game_id)
EphJoinInsertHost(c) ==
    /\ econn[c].pc = "join_host"
    /\ player_games' = Insert(player_games, econn[c].host, econn[c].code)
    /\ econn' = [econn EXCEPT ![c].pc = "join_guest"]
    /\ UNCHANGED <<pending_games, cleanup, games, ephMsgs>>
    /\ UNCHANGED <<sessionVars, lobbyVars, gameAux, matchVars, discCalls, outbox, gen>>

\* join_game: player_games.insert(guest_name, game_id)
EphJoinInsertGuest(c) ==
    /\ econn[c].pc = "join_guest"
    /\ player_games' = Insert(player_games, econn[c].guest, econn[c].code)
    /\ econn' = [econn EXCEPT ![c].pc = "join_notify"]
    /\ UNCHANGED <<pending_games, cleanup, games, ephMsgs>>
    /\ UNCHANGED <<sessionVars, lobbyVars, gameAux, matchVars, discCalls, outbox, gen>>

\* JoinGame, after join_game returned: ctx.user_id is set to the guest name,
\* OpponentJoined and GameStart are sent to the host, GameStart to the guest,
\* and start_first_round runs up to words.get_random().await.
EphJoinNotify(c) ==
    /\ econn[c].pc = "join_notify"
    /\ outbox' = Send(Send(Send(outbox,
                                econn[c].host_tx, OpponentJoinedMsg(econn[c].guest)),
                           econn[c].host_tx, GameStartMsg(econn[c].guest)),
                      c, GameStartMsg(econn[c].host))
    /\ econn' = [econn EXCEPT ![c].pc = "first_round",
                              ![c].user_id = Some(econn[c].guest)]
    /\ UNCHANGED <<pending_games, cleanup, games, player_games, ephMsgs>>
    /\ UNCHANGED <<sessionVars, lobbyVars, gameAux, matchVars, discCalls, gen>>

\* start_first_round after words.get_random(): without a word it returns;
\* with one, RoundStart { round: 1 } is sent to the host and to the guest,
\* the round is started if the game is still registered, and the timeout
\* task of round 1 is spawned.
EphJoinFirstRound(c) ==
    /\ econn[c].pc = "first_round"
    /\ \E w \in WordResults :
           IF w = None
           THEN UNCHANGED <<outbox, games, timers>>
           ELSE /\ outbox' = Send(Send(outbox, econn[c].host_tx,
                                       RoundStartMsg(Unwrap(w).kanji, 1)),
                                  c, RoundStartMsg(Unwrap(w).kanji, 1))
                /\ games' = IF econn[c].code \in DOMAIN games
                            THEN [games EXCEPT ![econn[c].code] =
                                     start_round(@, 1, Unwrap(w))]
                            ELSE games
                /\ timers' = timers \cup {Timer(0, econn[c].code, 1)}
    /\ econn' = [econn EXCEPT ![c].pc = "idle", ![c].code = "", ![c].host = "",
                              ![c].guest = "", ![c].host_tx = ""]
    /\ UNCHANGED <<pending_games, cleanup, player_games, ephMsgs>>
    /\ UNCHANGED <<ans, conn, first, bcast, hist, curRid, origin>>
    /\ UNCHANGED <<sessionVars, lobbyVars, matchVars, discCalls, gen>>

\* The connection ends.  With ctx.user_id set, handle_disconnect(user_id) runs:
\* registry.player_games.remove(user_id)
EphDisconnectBegin(c) ==
    /\ econn[c].pc = "idle"
    /\ IF IsSome(econn[c].user_id) /\ Unwrap(econn[c].user_id) \in DOMAIN player_games
       THEN /\ econn' = [econn EXCEPT ![c].pc = "disc_game",
                            ![c].code = player_games[Unwrap(econn[c].user_id)]]
            /\ player_games' = Remove(player_games, Unwrap(econn[c].user_id))
       ELSE /\ econn' = [econn EXCEPT ![c].pc = "closed"]
            /\ UNCHANGED player_games
    /\ UNCHANGED <<pending_games, cleanup, games, ephMsgs>>
    /\ UNCHANGED <<sessionVars, lobbyVars, gameAux, matchVars, discCalls, outbox, gen>>

\* handle_disconnect: registry.games.remove(&game_id)
EphDisconnectRemoveGame(c) ==
    /\ econn[c].pc = "disc_game"
    /\ IF econn[c].code \in DOMAIN games
       THEN /\ econn' = [econn EXCEPT ![c].pc = "disc_opponent",
                                      ![c].game = Some(games[econn[c].code])]
            /\ games' = Remove(games, econn[c].code)
       ELSE /\ econn' = [econn EXCEPT ![c].pc = "closed", ![c].code = ""]
            /\ UNCHANGED games
    /\ UNCHANGED <<pending_games, cleanup, player_games, ephMsgs>>
    /\ UNCHANGED <<sessionVars, lobbyVars, gameAux, matchVars, discCalls, outbox, gen>>

\* handle_disconnect: opponent_of(user_id) and player_games.remove(opponent_id)
EphDisconnectRemoveOpponent(c) ==
    /\ econn[c].pc = "disc_opponent"
    /\ LET opp == opponent_of(Unwrap(econn[c].game), Unwrap(econn[c].user_id)) IN
       IF opp = None THEN UNCHANGED player_games
       ELSE player_games' = Remove(player_games, Unwrap(opp))
    /\ econn' = [econn EXCEPT ![c].pc = "closed", ![c].code = "", ![c].game = None]
    /\ UNCHANGED <<pending_games, cleanup, games, ephMsgs>>
    /\ UNCHANGED <<sessionVars, lobbyVars, gameAux, matchVars, discCalls, outbox, gen>>

\* GameRegistry::cleanup_game(game_id): self.games.remove(game_id)
CleanupRemoveGame ==
    \E game_id \in Codes :
        /\ cleanup.pc = "idle"
        /\ game_id \in DOMAIN games
        /\ games' = Remove(games, game_id)
        /\ cleanup' = [pc |-> "player1", game_id |-> game_id,
                       game |-> Some(games[game_id])]
        /\ UNCHANGED <<pending_games, econn, player_games, ephMsgs>>
        /\ UNCHANGED <<sessionVars, lobbyVars, gameAux, matchVars, discCalls, outbox, gen>>

\* cleanup_game: self.player_games.remove(&game.session.player1)
CleanupRemovePlayer1 ==
    /\ cleanup.pc = "player1"
    /\ player_games' = Remove(player_games, Unwrap(cleanup.game).player1)
    /\ cleanup' = [cleanup EXCEPT !.pc = "player2"]
    /\ UNCHANGED <<pending_games, econn, games, ephMsgs>>
    /\ UNCHANGED <<sessionVars, lobbyVars, gameAux, matchVars, discCalls, outbox, gen>>

\* cleanup_game: self.player_games.remove(&game.session.player2)
CleanupRemovePlayer2 ==
    /\ cleanup.pc = "player2"
    /\ player_games' = Remove(player_games, Unwrap(cleanup.game).player2)
    /\ cleanup' = IdleCleanup
    /\ UNCHANGED <<pending_games, econn, games, ephMsgs>>
    /\ UNCHANGED <<sessionVars, lobbyVars, gameAux, matchVars, discCalls, outbox, gen>>

EphNext ==
    \/ \E c \in Conns :
          \/ EphCreateGenerate(c)
          \/ EphCreateInsert(c)
          \/ EphCreateSend(c)
          \/ EphJoinNotFound(c)
          \/ EphJoinRemove(c)
          \/ EphJoinInsertGame(c)
          \/ EphJoinInsertHost(c)
          \/ EphJoinInsertGuest(c)
          \/ EphJoinNotify(c)
          \/ EphJoinFirstRound(c)
          \/ EphDisconnectBegin(c)
          \/ EphDisconnectRemoveGame(c)
          \/ EphDisconnectRemoveOpponent(c)

\* The same with a caller of GameRegistry::cleanup_game, which no handler of
\* the ephemeral endpoint is.
RegistryNext ==
    \/ EphNext
    \/ CleanupRemoveGame
    \/ CleanupRemovePlayer1
    \/ CleanupRemovePlayer2

(***************************************************************************)
(* ephemeral/game_id.rs: generate_unique_game_id(exists), a loop around     *)
(* generate_game_id.  A game id is modelled as the sequence of its          *)
(* characters.                                                              *)
(***************************************************************************)
\* const CHARSET: &[u8] = b"abcdefghjkmnpqrstuvwxyz23456789";
CHARSET ==
    <<"a", "b", "c", "d", "e", "f", "g", "h", "j", "k", "m", "n", "p", "q",
      "r", "s", "t", "u", "v", "w", "x", "y", "z",
      "2", "3", "4", "5", "6", "7", "8", "9">>
ID_LENGTH == 6

\* rng.random_range(0..CHARSET.len()) for the character at `position`: every
\* index for the first character, the two ends of the range for the others.
RngValues(position) ==
    IF position = 1 THEN 0..(Len(CHARSET) - 1) ELSE {0, Len(CHARSET) - 1}

\* The ids the `exists` predicate of the caller may report as taken.
KnownIds ==
    {<<"a", "a", "a", "a", "a", "a">>,
     <<"a", "a", "a", "a", "a", "9">>,
     <<"9", "9", "9", "9", "9", "9">>}

\* An `exists` that reports no id as taken.
Exists_never(existing, id) == FALSE

\* exists(&id)
Exists(existing, id) == id \in existing

IdleGen == [pc |-> "idle", id |-> <<>>, exists |-> {}, attempts |-> 0, ret |-> None]

\* generate_unique_game_id is called with some `exists`.
GenInit ==
    gen \in {[pc |-> "generate", id |-> <<>>, exists |-> e, attempts |-> 0,
              ret |-> None] : e \in SUBSET KnownIds}

\* generate_game_id: one character of the id,
\* CHARSET[rng.random_range(0..CHARSET.len())] as char
GenerateChar ==
    /\ gen.pc = "generate"
    /\ Len(gen.id) = 0 => gen.attempts < MaxAttempts
    /\ \E i \in RngValues(Len(gen.id) + 1) :
           LET id == Append(gen.id, CHARSET[i + 1]) IN
           gen' = [gen EXCEPT !.id = id,
                              !.attempts = IF Len(gen.id) = 0 THEN @ + 1 ELSE @,
                              !.pc = IF Len(id) = ID_LENGTH THEN "check"
                                     ELSE "generate"]
    /\ UNCHANGED <<sessionVars, lobbyVars, gameVars, ephVars, matchVars>>
    /\ UNCHANGED <<discCalls, outbox>>

\* generate_unique_game_id: if !exists(&id) { return id; }, else the loop
\* goes round.
GenerateCheck ==
    /\ gen.pc = "check"
    /\ gen' = IF Exists(gen.exists, gen.id)
              THEN [gen EXCEPT !.pc = "generate", !.id = <<>>]
              ELSE [gen EXCEPT !.pc = "returned", !.id = <<>>,
                               !.ret = Some(gen.id)]
    /\ UNCHANGED <<sessionVars, lobbyVars, gameVars, ephVars, matchVars>>
    /\ UNCHANGED <<discCalls, outbox>>

GameIdNext == GenerateChar \/ GenerateCheck

(***************************************************************************)
(* matchmaking/state.rs and matchmaking/ws_handler.rs: MatchmakingState     *)
(* with its own games and player_games maps, the player_channels map and    *)
(* the Lobby, driven by the Join messages of the connections and their      *)
(* disconnects.  Every DashMap operation is one step; a Lobby call runs     *)
(* under the Lobby mutex and is one step.                                   *)
(***************************************************************************)
MConns == {"m1", "m2"}
UserIds == {"alice", "bob"}

IdleMatch ==
    [pc |-> "idle", user_id |-> None, opponent_id |-> None, opponent_tx |-> "",
     game_id |-> ""]

\* uuid::Uuid::new_v4().to_string(): an id that was never used before.
Uuid(n) == ToString(n)

\* Lobby::try_match as a whole.
try_match(slot, user_id) ==
    LET t == try_match_take(slot) IN try_match_finish(t.slot, t.taken, user_id)

\* self.player_channels.get(&opponent_id).map(|r| r.clone())
ChannelOf(channels, user_id) ==
    IF user_id \in DOMAIN channels THEN Some(channels[user_id]) ELSE None

\* History: the handle_disconnect of connection c, which found its user in a
\* game, has returned.
HandlingDone(h, c) ==
    [h EXCEPT !.done = @ \cup {<<mconn[c].game_id, Unwrap(mconn[c].user_id)>>}]

MatchInit ==
    /\ mgames = <<>>
    /\ mplayer_games = <<>>
    /\ player_channels = <<>>
    /\ mconn = [c \in MConns |-> IdleMatch]
    /\ mhist = [joins |-> 0, created |-> 0, notified |-> {}, double |-> FALSE,
                removed |-> {}, done |-> {}, spawned |-> {}]

\* Join { user_id }: ctx.user_id is set, then try_join registers the channel.
MJoinRegister(c) ==
    \E u \in UserIds :
        /\ mconn[c].pc = "idle"
        /\ mhist.joins < MaxJoins
        /\ mhist' = [mhist EXCEPT !.joins = @ + 1]
        /\ player_channels' = Insert(player_channels, u, c)
        /\ mconn' = [mconn EXCEPT ![c].pc = "try_match", ![c].user_id = Some(u)]
        /\ UNCHANGED <<waiting, mgames, mplayer_games>>
        /\ UNCHANGED <<sessionVars, lobbyHolder, lobbyPc, lobbyLog, gameVars, ephVars,
                   discCalls, outbox, gen>>

\* try_join: self.lobby.try_match(user_id); with Waiting try_join returns and
\* handle_join goes on to its send.
MJoinTryMatch(c) ==
    /\ mconn[c].pc = "try_match"
    /\ LET res == try_match(waiting, Unwrap(mconn[c].user_id)) IN
       /\ waiting' = res.slot
       /\ mconn' = IF res.r.tag = "Waiting"
                   THEN [mconn EXCEPT ![c].pc = "send_waiting"]
                   ELSE [mconn EXCEPT ![c].pc = "lookup",
                                      ![c].opponent_id = Some(res.r.opponent_id)]
    /\ UNCHANGED <<mgames, mplayer_games, player_channels, mhist>>
    /\ UNCHANGED <<sessionVars, lobbyHolder, lobbyPc, lobbyLog, gameVars, ephVars,
                   discCalls, outbox, gen>>

\* try_join: the opponent's channel, .expect("opponent should have registered
\* channel"): the task panics when the entry is gone.  Then the game id.
MJoinLookup(c) ==
    /\ mconn[c].pc = "lookup"
    /\ LET tx == ChannelOf(player_channels, Unwrap(mconn[c].opponent_id)) IN
       IF tx = None
       THEN /\ mconn' = [mconn EXCEPT ![c].pc = "panicked"]
            /\ UNCHANGED mhist
       ELSE /\ mconn' = [mconn EXCEPT ![c].pc = "insert_game",
                                      ![c].opponent_tx = Unwrap(tx),
                                      ![c].game_id = Uuid(mhist.created + 1)]
            /\ mhist' = [mhist EXCEPT !.created = @ + 1]
    /\ UNCHANGED <<waiting, mgames, mplayer_games, player_channels>>
    /\ UNCHANGED <<sessionVars, lobbyHolder, lobbyPc, lobbyLog, gameVars, ephVars,
                   discCalls, outbox, gen>>

\* try_join: self.games.insert(game_id, game)
MJoinInsertGame(c) ==
    /\ mconn[c].pc = "insert_game"
    /\ mgames' = Insert(mgames, mconn[c].game_id,
                        GameSession_new(Unwrap(mconn[c].opponent_id),
                                        Unwrap(mconn[c].user_id)))
    /\ mconn' = [mconn EXCEPT ![c].pc = "insert_opponent"]
    /\ UNCHANGED <<waiting, mplayer_games, player_channels, mhist>>
    /\ UNCHANGED <<sessionVars, lobbyHolder, lobbyPc, lobbyLog, gameVars, ephVars,
                   discCalls, outbox, gen>>

\* try_join: self.player_games.insert(opponent_id, game_id)
MJoinInsertOpponent(c) ==
    /\ mconn[c].pc = "insert_opponent"
    /\ mplayer_games' = Insert(mplayer_games, Unwrap(mconn[c].opponent_id),
                               mconn[c].game_id)
    /\ mconn' = [mconn EXCEPT ![c].pc = "insert_self"]
    /\ UNCHANGED <<waiting, mgames, player_channels, mhist>>
    /\ UNCHANGED <<sessionVars, lobbyHolder, lobbyPc, lobbyLog, gameVars, ephVars,
                   discCalls, outbox, gen>>

\* try_join: self.player_games.insert(user_id, game_id); Matched is returned.
MJoinInsertSelf(c) ==
    /\ mconn[c].pc = "insert_self"
    /\ mplayer_games' = Insert(mplayer_games, Unwrap(mconn[c].user_id),
                               mconn[c].game_id)
    /\ mconn' = [mconn EXCEPT ![c].pc = "game_start"]
    /\ UNCHANGED <<waiting, mgames, player_channels, mhist>>
    /\ UNCHANGED <<sessionVars, lobbyHolder, lobbyPc, lobbyLog, gameVars, ephVars,
                   discCalls, outbox, gen>>

\* handle_join, JoinResult::Waiting: tx.send(ServerMessage::Waiting)
MJoinSendWaiting(c) ==
    /\ mconn[c].pc = "send_waiting"
    /\ outbox' = Send(outbox, c, WaitingMsg)
    /\ mconn' = [mconn EXCEPT ![c].pc = "idle"]
    /\ UNCHANGED <<waiting, mgames, mplayer_games, player_channels, mhist>>
    /\ UNCHANGED <<sessionVars, lobbyHolder, lobbyPc, lobbyLog, gameVars, ephVars,
                   discCalls, gen>>

\* handle_join, JoinResult::Matched: GameStart on the joiner's channel and on
\* the opponent's, up to state.words.get_random().await.
MJoinGameStart(c) ==
    /\ mconn[c].pc = "game_start"
    /\ outbox' = Send(Send(outbox, c, GameStartMsg(Unwrap(mconn[c].opponent_id))),
                      mconn[c].opponent_tx,
                      GameStartMsg(Unwrap(mconn[c].user_id)))
    /\ mconn' = [mconn EXCEPT ![c].pc = "first_round"]
    /\ UNCHANGED <<waiting, mgames, mplayer_games, player_channels, mhist>>
    /\ UNCHANGED <<sessionVars, lobbyHolder, lobbyPc, lobbyLog, gameVars, ephVars,
                   discCalls, gen>>

\* handle_join after get_random: with a word, RoundStart round 1 on both
\* channels, start_round if the game is still in the map, and the timeout
\* task of round 1 is spawned; without a word nothing.
MJoinFirstRound(c) ==
    /\ mconn[c].pc = "first_round"
    /\ \E w \in WordResults :
           IF w = None
           THEN UNCHANGED <<outbox, mgames, mhist>>
           ELSE /\ outbox' = Send(Send(outbox, c, RoundStartMsg(Unwrap(w).kanji, 1)),
                                  mconn[c].opponent_tx,
                                  RoundStartMsg(Unwrap(w).kanji, 1))
                /\ mgames' = IF mconn[c].game_id \in DOMAIN mgames
                             THEN [mgames EXCEPT ![mconn[c].game_id] =
                                      start_round(@, 1, Unwrap(w))]
                             ELSE mgames
                /\ mhist' = [mhist EXCEPT !.spawned = @ \cup {mconn[c].game_id}]
    /\ mconn' = [mconn EXCEPT ![c].pc = "idle", ![c].opponent_id = None,
                              ![c].opponent_tx = "", ![c].game_id = ""]
    /\ UNCHANGED <<waiting, mplayer_games, player_channels>>
    /\ UNCHANGED <<sessionVars, lobbyHolder, lobbyPc, lobbyLog, gameVars, ephVars,
                   discCalls, gen>>

\* The connection ends.  With ctx.user_id set, handle_disconnect(user_id)
\* runs: self.lobby.remove_waiting(user_id)
MDisconnectRemoveWaiting(c) ==
    /\ mconn[c].pc = "idle"
    /\ IF IsSome(mconn[c].user_id)
       THEN /\ waiting' = remove_waiting_body(waiting, Unwrap(mconn[c].user_id))
            /\ mconn' = [mconn EXCEPT ![c].pc = "remove_channel"]
       ELSE /\ mconn' = [mconn EXCEPT ![c].pc = "closed"]
            /\ UNCHANGED waiting
    /\ UNCHANGED <<mgames, mplayer_games, player_channels, mhist>>
    /\ UNCHANGED <<sessionVars, lobbyHolder, lobbyPc, lobbyLog, gameVars, ephVars,
                   discCalls, outbox, gen>>

\* handle_disconnect: self.player_channels.remove(user_id)
MDisconnectRemoveChannel(c) ==
    /\ mconn[c].pc = "remove_channel"
    /\ player_channels' = Remove(player_channels, Unwrap(mconn[c].user_id))
    /\ mconn' = [mconn EXCEPT ![c].pc = "remove_player"]
    /\ UNCHANGED <<waiting, mgames, mplayer_games, mhist>>
    /\ UNCHANGED <<sessionVars, lobbyHolder, lobbyPc, lobbyLog, gameVars, ephVars,
                   discCalls, outbox, gen>>

\* handle_disconnect: self.player_games.remove(user_id)
MDisconnectRemovePlayer(c) ==
    /\ mconn[c].pc = "remove_player"
    /\ LET u == Unwrap(mconn[c].user_id) IN
       IF u \in DOMAIN mplayer_games
       THEN /\ mplayer_games' = Remove(mplayer_games, u)
            /\ mconn' = [mconn EXCEPT ![c].pc = "get_game",
                                      ![c].game_id = mplayer_games[u]]
       ELSE /\ mconn' = [mconn EXCEPT ![c].pc = "closed"]
            /\ UNCHANGED mplayer_games
    /\ UNCHANGED <<waiting, mgames, player_channels, mhist>>
    /\ UNCHANGED <<sessionVars, lobbyHolder, lobbyPc, lobbyLog, gameVars, ephVars,
                   discCalls, outbox, gen>>

\* handle_disconnect: self.games.get(&game_id) and opponent_of(user_id)
MDisconnectGetGame(c) ==
    /\ mconn[c].pc = "get_game"
    /\ mconn' = IF mconn[c].game_id \in DOMAIN mgames
                THEN [mconn EXCEPT ![c].pc = "remove_game",
                         ![c].opponent_id =
                             opponent_of(mgames[mconn[c].game_id],
                                         Unwrap(mconn[c].user_id))]
                ELSE [mconn EXCEPT ![c].pc = "closed", ![c].game_id = ""]
    /\ mhist' = IF mconn[c].game_id \in DOMAIN mgames THEN mhist
                ELSE HandlingDone(mhist, c)
    /\ UNCHANGED <<waiting, mgames, mplayer_games, player_channels>>
    /\ UNCHANGED <<sessionVars, lobbyHolder, lobbyPc, lobbyLog, gameVars, ephVars,
                   discCalls, outbox, gen>>

\* handle_disconnect: self.games.remove(&game_id)
MDisconnectRemoveGame(c) ==
    /\ mconn[c].pc = "remove_game"
    /\ mgames' = Remove(mgames, mconn[c].game_id)
    /\ LET h == IF mconn[c].game_id \in DOMAIN mgames
                THEN [mhist EXCEPT !.removed = @ \cup {<<mconn[c].game_id, c>>}]
                ELSE mhist
       IN mhist' = IF IsSome(mconn[c].opponent_id) THEN h ELSE HandlingDone(h, c)
    /\ mconn' = IF IsSome(mconn[c].opponent_id)
                THEN [mconn EXCEPT ![c].pc = "remove_opponent"]
                ELSE [mconn EXCEPT ![c].pc = "closed", ![c].game_id = ""]
    /\ UNCHANGED <<waiting, mplayer_games, player_channels>>
    /\ UNCHANGED <<sessionVars, lobbyHolder, lobbyPc, lobbyLog, gameVars, ephVars,
                   discCalls, outbox, gen>>

\* handle_disconnect: self.player_games.remove(&opponent_id)
MDisconnectRemoveOpponent(c) ==
    /\ mconn[c].pc = "remove_opponent"
    /\ mplayer_games' = Remove(mplayer_games, Unwrap(mconn[c].opponent_id))
    /\ mconn' = [mconn EXCEPT ![c].pc = "notify"]
    /\ UNCHANGED <<waiting, mgames, player_channels, mhist>>
    /\ UNCHANGED <<sessionVars, lobbyHolder, lobbyPc, lobbyLog, gameVars, ephVars,
                   discCalls, outbox, gen>>

\* handle_disconnect: OpponentDisconnected on the opponent's registered
\* channel, if there is one.
MDisconnectNotify(c) ==
    /\ mconn[c].pc = "notify"
    /\ LET tx == ChannelOf(player_channels, Unwrap(mconn[c].opponent_id))
           note == <<mconn[c].game_id, Unwrap(tx)>>
       IN IF tx = None THEN mhist' = HandlingDone(mhist, c)
          ELSE mhist' = [HandlingDone(mhist, c) EXCEPT
                            !.notified = @ \cup {note},
                            !.double = @ \/ note \in mhist.notified]
    /\ mconn' = [mconn EXCEPT ![c].pc = "closed", ![c].game_id = "",
                              ![c].opponent_id = None]
    /\ UNCHANGED <<waiting, mgames, mplayer_games, player_channels>>
    /\ UNCHANGED <<sessionVars, lobbyHolder, lobbyPc, lobbyLog, gameVars, ephVars,
                   discCalls, outbox, gen>>

MatchNext ==
    \E c \in MConns :
        \/ MJoinRegister(c)
        \/ MJoinTryMatch(c)
        \/ MJoinLookup(c)
        \/ MJoinInsertGame(c)
        \/ MJoinInsertOpponent(c)
        \/ MJoinInsertSelf(c)
        \/ MJoinSendWaiting(c)
        \/ MJoinGameStart(c)
        \/ MJoinFirstRound(c)
        \/ MDisconnectRemoveWaiting(c)
        \/ MDisconnectRemoveChannel(c)
        \/ MDisconnectRemovePlayer(c)
        \/ MDisconnectGetGame(c)
        \/ MDisconnectRemoveGame(c)
        \/ MDisconnectRemoveOpponent(c)
        \/ MDisconnectNotify(c)

DiscInit == discCalls = [p \in GamePlayers |-> 0]

\* No connection is observed, and no game id is being generated.
NoOutbox == outbox = <<>>
GenParked == gen = IdleGen

\* The disconnect handling of the two endpoints, without rounds: the players of
\* a game just created by join_game, and the connections of the matchmaking
\* endpoint.
DisconnectNext ==
    \/ \E p \in GamePlayers :
          \/ DisconnectBegin(p)
          \/ DisconnectRemoveGame(p)
          \/ DisconnectNotify(p)
          \/ DisconnectAgain(p)
    \/ MatchNext

InitSession == SessionInit /\ LobbyInit /\ GameParked /\ EphInit /\ MatchInit /\ DiscInit
    /\ NoOutbox /\ GenParked
InitLobby == SessionInit /\ LobbyInit /\ GameParked /\ EphInit /\ MatchInit /\ DiscInit
    /\ NoOutbox /\ GenParked
InitGame == SessionInit /\ LobbyInit /\ GameInit /\ EphInit /\ MatchInit /\ DiscInit
    /\ NoOutbox /\ GenParked
InitEphemeral == SessionInit /\ LobbyInit /\ GameParked /\ EphInit /\ MatchInit /\ DiscInit
    /\ NoOutbox /\ GenParked
InitMatchmaking == SessionInit /\ LobbyInit /\ GameParked /\ EphInit /\ MatchInit /\ DiscInit
    /\ NoOutbox /\ GenParked
InitDisconnect ==
    SessionInit /\ LobbyInit /\ GameInit /\ origin = FreshPosition /\ EphInit /\ MatchInit /\ DiscInit
    /\ NoOutbox /\ GenParked
\* The ephemeral endpoint with the channels of its connections observed;
\* initially empty, or with the game of a host that is waiting for a guest
\* on a connection of its own.
HostConn == "c0"
PendingOfHost == [g \in {"g1"} |-> [host |-> "alice", conn |-> HostConn]]
InitObserved ==
    /\ SessionInit /\ LobbyInit /\ GameParked /\ MatchInit /\ DiscInit /\ GenParked
    /\ econn = [c \in Conns |-> IdleEph]
    /\ cleanup = IdleCleanup
    /\ ephMsgs = 0
    /\ \/ /\ pending_games = <<>>
          /\ outbox = [c \in Conns |-> <<>>]
       \/ /\ pending_games = PendingOfHost
          /\ outbox = [c \in Conns \cup {HostConn} |->
                          IF c = HostConn
                          THEN <<GameCreatedMsg("g1"), WaitingForOpponentMsg>>
                          ELSE <<>>]
\* A game with the channels of its two players observed.
InitGameObserved ==
    /\ SessionInit /\ LobbyInit /\ GameInit /\ EphInit /\ MatchInit /\ DiscInit
    /\ GenParked
    /\ outbox = [p \in GamePlayers |-> <<>>]
\* The matchmaking endpoint with the channels of its connections observed.
InitMatchObserved ==
    /\ SessionInit /\ LobbyInit /\ GameParked /\ EphInit /\ MatchInit /\ DiscInit
    /\ GenParked
    /\ outbox = [c \in MConns |-> <<>>]
InitGameId ==
    SessionInit /\ LobbyInit /\ GameParked /\ EphInit /\ MatchInit /\ DiscInit
    /\ NoOutbox /\ GenInit

SpecSession == InitSession /\ [][SessionNext]_vars

SpecLobby == InitLobby /\ [][LobbyNext]_vars

SpecGame == InitGame /\ [][GameNext]_vars

\* SpecGame with the timeout tasks waking in spawn order.
SpecGameInOrder == InitGame /\ [][GameNextInOrder]_vars

\* The game with its timeout tasks scheduled: tokio runs every spawned
\* timeout task, so its sleep ends and handle_round_timeout runs up to
\* words.get_random().await.  Nothing is assumed of the players or of the
\* word repository.
GameFairness ==
    \A r \in 0..(MaxLiveStarts + 1) :
        /\ WF_vars(\E t \in timers : t.rid = r /\ TimerFire(t))
        /\ WF_vars(\E t \in timers : t.rid = r /\ TimerContinue(t))

\* The game up to its first MaxLiveStarts rounds.
GameNextLive == GameNext /\ Len(hist') <= MaxLiveStarts

SpecGameLive == InitGame /\ [][GameNextLive]_vars /\ GameFairness

\* A game late in its course whose players stay connected and whose word
\* source always has a word.  tokio runs every task: the timeout tasks, and
\* the handle_answer of an answer that resolved a round.
InitGameLate == InitGameObserved /\ ~origin.fresh

NoWordFailure ==
    /\ ~first.failed
    /\ \A rid \in 1..Len(hist) : hist[rid].noword = 0

PlayerStep ==
    \E p \in GamePlayers : AnswerSubmit(p) \/ AnswerWrong(p)

HandlerStep ==
    \E p \in GamePlayers :
        AnswerBroadcast(p) \/ AnswerContinue(p) \/ AnswerStart(p)

TimerStep ==
    \E t \in timers : TimerFire(t) \/ TimerContinue(t) \/ TimerStart(t)

GameNextPlayed ==
    /\ PlayerStep \/ HandlerStep \/ TimerStep
    /\ NoWordFailure'

TaskFairness ==
    /\ WF_vars(TimerStep /\ NoWordFailure')
    /\ WF_vars(HandlerStep /\ NoWordFailure')

SpecGameEnds == InitGameLate /\ [][GameNextPlayed]_vars /\ TaskFairness

SpecEphemeral == InitEphemeral /\ [][EphNext]_vars

SpecRegistry == InitEphemeral /\ [][RegistryNext]_vars

SpecMatchmaking == InitMatchmaking /\ [][MatchNext]_vars

\* The disconnects of the first MaxDisconnectJoins Join messages.
DisconnectNextBounded == DisconnectNext /\ mhist'.joins <= MaxDisconnectJoins

SpecDisconnect == InitDisconnect /\ [][DisconnectNextBounded]_vars

\* The first MaxObservedMsgs messages of the ephemeral endpoint, observed.
ObservedNext == EphNext /\ ephMsgs' <= MaxObservedMsgs

SpecObserved == InitObserved /\ [][ObservedNext]_vars

SpecGameId == InitGameId /\ [][GameIdNext]_vars

SpecMatchObserved == InitMatchObserved /\ [][MatchNext]_vars

SpecGameObserved == InitGameObserved /\ [][GameNextLive]_vars

(***************************************************************************)
(* Properties of GameSession (SpecSession).                                 *)
(***************************************************************************)
ResolvingOps == {"submit_answer", "record_skip", "timeout_round"}

\* C1: after start_round, among the submit_answer, record_skip and
\* timeout_round calls made on that round exactly one returns a RoundOutcome:
\* a timeout or a correct answer on an active round returns one, at most one
\* outcome is produced per round, and once the round is resolved every further
\* call returns None and leaves the session unchanged.
C1_ExactlyOnceResolution ==
    /\ [](outcomes <= 1)
    /\ [][/\ (gs.current_round = None /\ last'.op \in ResolvingOps)
               => (last'.ret = None /\ gs' = gs)
          /\ (/\ IsSome(gs.current_round)
              /\ \/ last'.op = "timeout_round"
                 \/ /\ last'.op = "submit_answer"
                    /\ check_answer(Unwrap(gs.current_round), last'.answer))
               => (ProducedOutcome(last'.op, last'.ret) /\ outcomes' = 1)
         ]_vars

\* A call made after the round was resolved returned None.
C1_Witness ==
    /\ outcomes = 1
    /\ gs.current_round = None
    /\ last.op = "timeout_round"
    /\ last.ret = None

\* C10: start_round on a session whose round is still active does not
\* overwrite it: the active round keeps its number, word and skip flags.
C10_StartRoundKeepsActiveRound ==
    [][(IsSome(gs.current_round) /\ last'.op = "start_round")
          => gs'.current_round = gs.current_round]_vars

\* C11: submit_answer(player, text) returns Some(outcome) exactly when a round
\* is active and text equals its reading; the outcome then names the caller as
\* winner and carries the reading, and the round is cleared.  Otherwise it
\* returns None and round, skip flags and scores are unchanged.
C11_SubmitAnswer ==
    [][last'.op = "submit_answer" =>
          IF IsSome(gs.current_round)
             /\ last'.answer = Unwrap(gs.current_round).word.reading
          THEN /\ last'.ret = Some([winner |-> Some(last'.player),
                                    correct_reading |->
                                        Unwrap(gs.current_round).word.reading])
               /\ gs'.current_round = None
               /\ gs'.scores = gs.scores
          ELSE /\ last'.ret = None
               /\ gs' = gs
     ]_vars

\* bob answered an active round correctly and the round was cleared.
C11_Witness ==
    /\ last.op = "submit_answer"
    /\ last.player = "bob"
    /\ IsSome(last.ret)
    /\ Unwrap(last.ret).winner = Some("bob")
    /\ gs.current_round = None

\* The skip flags of round r as <<own flag, opponent's flag>> for player p.
SkipFlags(self, p) ==
    LET r == Unwrap(self.current_round) IN
    IF p = self.player1 THEN <<r.player1_skipped, r.player2_skipped>>
    ELSE <<r.player2_skipped, r.player1_skipped>>

\* C12: record_skip(player) returns None and changes nothing without an active
\* round or for an id that is not a session player; otherwise AlreadySkipped
\* when the player's flag was set, WaitingForOpponent when neither flag was
\* set, and BothSkipped(winner None, the reading) with the round cleared when
\* only the opponent's flag was set.
C12_RecordSkip ==
    [][last'.op = "record_skip" =>
          IF gs.current_round = None \/ ~has_player(gs, last'.player)
          THEN last'.ret = None /\ gs' = gs
          ELSE LET flags == SkipFlags(gs, last'.player) IN
               /\ flags[1] =>
                      (last'.ret = Some([tag |-> "AlreadySkipped", outcome |-> None]))
               /\ (~flags[1] /\ ~flags[2]) =>
                      (/\ last'.ret = Some([tag |-> "WaitingForOpponent", outcome |-> None])
                       /\ IsSome(gs'.current_round))
               /\ (~flags[1] /\ flags[2]) =>
                      (/\ last'.ret =
                            Some([tag |-> "BothSkipped",
                                  outcome |-> Some([winner |-> None,
                                      correct_reading |->
                                          Unwrap(gs.current_round).word.reading])])
                       /\ gs'.current_round = None)
               /\ gs'.scores = gs.scores
     ]_vars

\* The second player skipped and the round ended with BothSkipped.
C12_Witness ==
    /\ last.op = "record_skip"
    /\ IsSome(last.ret)
    /\ Unwrap(last.ret).tag = "BothSkipped"
    /\ gs.current_round = None

\* C13: timeout_round on an active round returns winner None with the round's
\* reading, clears the round and leaves the scores; without an active round
\* it returns None and changes nothing.
C13_TimeoutRound ==
    [][last'.op = "timeout_round" =>
          IF IsSome(gs.current_round)
          THEN /\ last'.ret = Some([winner |-> None,
                                    correct_reading |->
                                        Unwrap(gs.current_round).word.reading])
               /\ gs'.current_round = None
               /\ gs'.scores = gs.scores
          ELSE /\ last'.ret = None
               /\ gs' = gs
     ]_vars

\* An active round of a session with a non-zero score was timed out.
C13_Witness ==
    /\ last.op = "timeout_round"
    /\ IsSome(last.ret)
    /\ Unwrap(last.ret).winner = None
    /\ gs.scores # <<0, 0>>
    /\ gs.current_round = None

\* What record_win(p) does to the scores.
ScoresAfterWin(self, p) ==
    IF p = self.player1 THEN <<self.scores[1] + 1, self.scores[2]>>
    ELSE IF p = self.player2 THEN <<self.scores[1], self.scores[2] + 1>>
    ELSE self.scores

\* C14 as stated: game_winner() is Some(p) exactly when p's score has reached
\* WINS_NEEDED, for each of the two players.
C14_WinnerExactlyWhenReached ==
    /\ (game_winner(gs) = Some(gs.player1)) <=> (gs.scores[1] >= WINS_NEEDED)
    /\ (game_winner(gs) = Some(gs.player2)) <=> (gs.scores[2] >= WINS_NEEDED)

\* C14, amended: game_winner() is None while both scores are below
\* WINS_NEEDED, player1 when player1's score has reached it, and player2 when
\* player2's score has reached it and player1's has not; record_win(p) adds
\* one to p's score only, and changes nothing for an id that is no session
\* player.
C14_ScoreThreshold ==
    /\ [](((gs.scores[1] < WINS_NEEDED /\ gs.scores[2] < WINS_NEEDED)
              => (game_winner(gs) = None))
          /\ ((gs.scores[1] >= WINS_NEEDED)
              => (game_winner(gs) = Some(gs.player1)))
          /\ ((gs.scores[2] >= WINS_NEEDED /\ gs.scores[1] < WINS_NEEDED)
              => (game_winner(gs) = Some(gs.player2))))
    /\ [][last'.op = "record_win" =>
              gs' = [gs EXCEPT !.scores = ScoresAfterWin(gs, last'.player)]
         ]_vars

\* bob's WINS_NEEDED-th win was recorded while alice has none.
C14_Witness ==
    /\ last.op = "record_win"
    /\ last.player = "bob"
    /\ gs.scores = <<0, WINS_NEEDED>>
    /\ game_winner(gs) = Some("bob")

(***************************************************************************)
(* Properties of the Lobby (SpecLobby).                                     *)
(***************************************************************************)
OnlyTryMatch(log) == \A i \in 1..Len(log) : log[i].op = "try_match"

\* C7: in a sequence of try_match calls with no remove_waiting, every
\* odd-numbered call returns Waiting (and occupies the slot) and every
\* even-numbered call returns Matched naming the caller of the call before
\* it, leaving the slot empty.
C7_LobbyFifoPairing ==
    OnlyTryMatch(lobbyLog) =>
        \A i \in 1..Len(lobbyLog) :
            IF i % 2 = 1
            THEN /\ lobbyLog[i].ret = Waiting
                 /\ lobbyLog[i].post = Some(lobbyLog[i].user)
            ELSE /\ lobbyLog[i].ret = Matched(lobbyLog[i - 1].user)
                 /\ lobbyLog[i].post = None

C7_Witness ==
    /\ Len(lobbyLog) >= 3
    /\ OnlyTryMatch(lobbyLog)
    /\ lobbyLog[2].ret.tag = "Matched"
    /\ lobbyLog[3].ret.tag = "Waiting"

\* Number of entries among the first n of the log satisfying P.
WaitingsOf(u, n) ==
    Cardinality({i \in 1..n : /\ lobbyLog[i].op = "try_match"
                              /\ lobbyLog[i].user = u
                              /\ lobbyLog[i].ret = Waiting})
HandoutsOf(u, n) ==
    Cardinality({i \in 1..n : lobbyLog[i].ret = Matched(u)})

\* C8: two try_match calls that overlap on an empty lobby end with one
\* Waiting and the other Matched naming the first; at most one caller is
\* inside the critical section, and a waiting player is handed to at most one
\* joiner.
C8_ConcurrentJoins ==
    /\ Cardinality({c \in Callers : lobbyPc[c].at \in {"locked", "taken"}}) <= 1
    /\ \A n \in 1..Len(lobbyLog), u \in PlayerIds :
           HandoutsOf(u, n) <= WaitingsOf(u, n)
    /\ (/\ Len(lobbyLog) >= 2
        /\ lobbyLog[1].op = "try_match" /\ lobbyLog[2].op = "try_match"
        /\ lobbyLog[1].overlap /\ lobbyLog[2].overlap)
         => /\ lobbyLog[1].ret = Waiting
            /\ lobbyLog[2].ret = Matched(lobbyLog[1].user)
            /\ lobbyLog[2].post = None

C8_Witness ==
    /\ Len(lobbyLog) = 2
    /\ lobbyLog[1].op = "try_match" /\ lobbyLog[2].op = "try_match"
    /\ lobbyLog[1].overlap /\ lobbyLog[2].overlap
    /\ lobbyLog[1].user # lobbyLog[2].user

\* C9: remove_waiting(p) empties the slot exactly when the slot holds p and
\* leaves it unchanged otherwise; a player removed while waiting is not
\* returned as opponent by a later try_match unless that player has called
\* try_match again and been put in the slot.
C9_RemoveWaiting ==
    /\ \A i \in 1..Len(lobbyLog) :
           lobbyLog[i].op = "remove_waiting" =>
               lobbyLog[i].post = IF lobbyLog[i].pre = Some(lobbyLog[i].user)
                                  THEN None ELSE lobbyLog[i].pre
    /\ \A i \in 1..Len(lobbyLog), j \in 1..Len(lobbyLog) :
           (/\ i < j
            /\ lobbyLog[i].op = "remove_waiting"
            /\ lobbyLog[j].ret = Matched(lobbyLog[i].user))
             => \E k \in (i + 1)..(j - 1) :
                    /\ lobbyLog[k].op = "try_match"
                    /\ lobbyLog[k].user = lobbyLog[i].user
                    /\ lobbyLog[k].ret = Waiting

\* One remove_waiting cleared the slot and another found a different occupant.
C9_Witness ==
    \E i \in 1..Len(lobbyLog), j \in 1..Len(lobbyLog) :
        /\ lobbyLog[i].op = "remove_waiting"
        /\ lobbyLog[i].pre = Some(lobbyLog[i].user)
        /\ lobbyLog[j].op = "remove_waiting"
        /\ IsSome(lobbyLog[j].pre)
        /\ lobbyLog[j].pre # Some(lobbyLog[j].user)

(***************************************************************************)
(* Properties of one registered game (SpecGame).                            *)
(***************************************************************************)
Rids == 1..Len(hist)
AllConnected == \A p \in GamePlayers : conn[p].at = "open"

\* No task is between resolving round rid and the end of the decision that
\* follows the resolution.
Settled(rid) ==
    /\ \A p \in GamePlayers :
           ans[p].pc \in {"broadcast", "continue"} => ans[p].res # rid
    /\ \A t \in timers : t.pc = "continue" => t.res # rid

TimerPending(rid) == \E t \in timers : t.rid = rid /\ t.pc = "sleeping"

\* An answer task that resolved round rid is still running.
AnswerInFlight(rid) == \E p \in GamePlayers : ans[p].pc # "idle" /\ ans[p].res = rid

\* C2: a correct answer and the timeout armed for the same round race for it:
\* the round is resolved once, by exactly one of the two, one RoundResult is
\* broadcast for it and one continue_or_end_game decision follows it.
C2_AnswerTimeoutRace ==
    \A rid \in Rids :
        /\ hist[rid].resolved <= 1
        /\ hist[rid].results <= 1
        /\ hist[rid].conts <= 1
        /\ (AllConnected /\ ~TimerPending(rid)) => hist[rid].resolved = 1
        /\ (AllConnected /\ hist[rid].resolved = 1 /\ Settled(rid))
             => (hist[rid].results = 1 /\ hist[rid].conts = 1)

\* The timeout armed for a round fired while the task of the correct answer
\* that resolved the round was still running, and resolved nothing.
C2_Witness ==
    \E rid \in Rids :
        /\ hist[rid].by = "answer"
        /\ hist[rid].resolved = 1
        /\ AnswerInFlight(rid)
        /\ ~TimerPending(rid)
        /\ AllConnected

\* C3: a timeout task armed for a round that was resolved by a correct answer
\* times out no round: in particular not a round started later.
C3_StaleTimeoutSuppressed ==
    \A rid \in Rids :
        (hist[rid].by = "timeout" /\ hist[rid].timer # 0)
            => hist[hist[rid].timer].by # "answer"

\* C4: the first round of a game has number 1 and every later round has the
\* number of the round resolved just before it plus one.
C4_RoundNumbering ==
    /\ (origin.fresh /\ Len(hist) >= 1) => hist[1].number = 1
    /\ \A rid \in Rids : rid >= 2 => hist[rid].number = hist[rid - 1].number + 1

(***************************************************************************)
(* Properties of the registry maps (SpecEphemeral).                         *)
(***************************************************************************)
\* No handler and no cleanup_game call is part-way through.
EphQuiescent ==
    /\ \A c \in Conns : econn[c].pc \in {"idle", "closed"}
    /\ cleanup.pc = "idle"

PlayersMapped(game_id) ==
    /\ games[game_id].player1 \in DOMAIN player_games
    /\ games[game_id].player2 \in DOMAIN player_games

\* C5: after any sequence of completed operations, every player_games entry
\* names a game present in games whose session has that player, and both
\* players of every session in games are mapped to that session's game id.
C5_RegistryConsistency ==
    EphQuiescent =>
        /\ \A p \in DOMAIN player_games :
               /\ player_games[p] \in DOMAIN games
               /\ has_player(games[player_games[p]], p)
        /\ \A g \in DOMAIN games :
               /\ PlayersMapped(g)
               /\ player_games[games[g].player1] = g
               /\ player_games[games[g].player2] = g

\* C6: the two maps change as a unit: in no state, the states in the middle
\* of a creation or a removal included, does player_games map a player to a
\* game id absent from games, or does games hold a session whose players
\* have no player_games entry.
C6_MapsUpdatedAsUnit ==
    /\ \A p \in DOMAIN player_games : player_games[p] \in DOMAIN games
    /\ \A g \in DOMAIN games : PlayersMapped(g)

(***************************************************************************)
(* Properties of the disconnect handling (SpecDisconnect).                  *)
(***************************************************************************)
\* No disconnect handling of the game's players is part-way through.
DisconnectAtRest == \A p \in GamePlayers : conn[p].at \in {"open", "closed"}

DisconnectHandled(p) == conn[p].at = "closed"

\* OpponentDisconnected broadcasts on the channels of the game.
NotifyCount ==
    Cardinality({i \in 1..Len(bcast) : bcast[i] = OpponentDisconnectedMsg})

\* C15: once the disconnect handling of a player of the game has run to its
\* end, the game and both player mappings are gone and OpponentDisconnected
\* was sent once; a handling started after that, for the same player again or
\* for the opponent, returns at its first lookup, sends nothing and changes
\* neither map.
C15_DisconnectIdempotence ==
    /\ []((DisconnectAtRest /\ \E p \in GamePlayers : DisconnectHandled(p))
            => (games = <<>> /\ player_games = <<>> /\ NotifyCount = 1))
    /\ [][(/\ DisconnectAtRest
            /\ (\E p \in GamePlayers : DisconnectHandled(p))
            /\ (\E q \in GamePlayers :
                   conn'[q] # conn[q] \/ discCalls'[q] # discCalls[q]))
           => (/\ games' = games
               /\ player_games' = player_games
               /\ bcast' = bcast
               /\ \A p \in GamePlayers : conn'[p].at \in {"open", "closed"})
         ]_vars

\* alice's disconnect was handled twice and bob's after that; one
\* OpponentDisconnected was sent.
C15_Witness ==
    /\ discCalls["alice"] >= 1
    /\ DisconnectHandled("alice")
    /\ DisconnectHandled("bob")
    /\ NotifyCount = 1
    /\ games = <<>>

\* The connections of the matchmaking endpoint that removed game g from games.
RemoversOf(g) == {c \in MConns : <<g, c>> \in mhist.removed}

\* The users whose handle_disconnect found them in game g and has returned.
HandledFor(g) == {u \in UserIds : <<g, u>> \in mhist.done}

\* C16: however the disconnect handlings of the two players of a game
\* interleave, no channel gets OpponentDisconnected twice for the game, at
\* most one handling obtains the removed game, a handling only ends by
\* returning, and when both are done the maps hold no entry for the game or
\* its players.  Stated for handle_disconnect of the ephemeral endpoint (game
\* g1) and of the matchmaking endpoint.
C16_SimultaneousDisconnect ==
    /\ NotifyCount <= 1
    /\ ~(\A p \in GamePlayers : IsSome(conn[p].game))
    /\ (\A p \in GamePlayers : DisconnectHandled(p))
          => (games = <<>> /\ player_games = <<>>)
    /\ ~mhist.double
    /\ \A g \in {n[1] : n \in mhist.removed} : Cardinality(RemoversOf(g)) <= 1
    /\ \A g \in {n[1] : n \in mhist.done} :
           Cardinality(HandledFor(g)) = 2
             => (/\ g \notin DOMAIN mgames
                 /\ \A u \in DOMAIN mplayer_games : mplayer_games[u] # g)

\* Both players of the ephemeral game were inside handle_disconnect at the same
\* time, and the disconnects of both players of a matchmaking game were
\* handled.
C16_Witness ==
    /\ conn["alice"].at = "removed_game"
    /\ conn["bob"].at = "removed_player"
    /\ \E g \in {n[1] : n \in mhist.done} :
           /\ Cardinality(HandledFor(g)) = 2
           /\ Cardinality(RemoversOf(g)) = 1

\* ---------------------------------------------------------------------
\* C17: no panic on racing lookups.  No matchmaking operation panics
\* because an entry it looks up has been removed concurrently: in every
\* reachable state no connection task has stopped at the .expect of
\* try_join (matchmaking/state.rs 67-71).  The lookups of
\* handle_disconnect are if-let / let-else and cannot panic; try_join's
\* lookup of the matched opponent's channel can.
C17_NoPanicOnRacingLookups ==
    \A c \in MConns : mconn[c].pc # "panicked"

\* ---------------------------------------------------------------------
\* The timeout task spawned for round instance rid is asleep, armed with
\* the game id and the number of that round.
TimeoutArmed(rid) ==
    \E t \in timers :
        /\ t.rid = rid
        /\ t.pc = "sleeping"
        /\ t.game_id = GameId
        /\ t.round = hist[rid].number

\* Round instance rid was timed out: one RoundResult was broadcast for it
\* and the continue-or-end decision was taken for it.
TimedOut(rid) ==
    /\ rid <= Len(hist)
    /\ hist[rid].by = "timeout"
    /\ hist[rid].results = 1
    /\ hist[rid].conts = 1

\* C18: timeout resolution liveness.  Every started round has a timeout
\* armed for it: while the game is registered and the round is unresolved,
\* the task spawned for it is asleep with its number.  The step in which a
\* timeout resolves a round broadcasts RoundResult with winner None and the
\* reading of the round's word.  Every started round is eventually timed
\* out and followed by the continue-or-end decision, unless a correct
\* answer resolves it or the game leaves the registry.
C18_TimeoutResolutionLiveness ==
    /\ [](\A rid \in Rids :
             (GameId \in DOMAIN games /\ hist[rid].resolved = 0)
                 => (TimeoutArmed(rid) /\ rid = curRid))
    /\ [][\A rid \in Rids :
             (hist[rid].resolved = 0 /\ hist'[rid].resolved = 1
                 /\ hist'[rid].by = "timeout")
               => (/\ GameId \in DOMAIN games
                   /\ IsSome(games[GameId].current_round)
                   /\ bcast' = Append(bcast,
                          RoundResultMsg(None,
                              Unwrap(games[GameId].current_round).word.reading))
                   /\ games'[GameId].current_round = None
                   /\ games'[GameId].scores = games[GameId].scores)]_vars
    /\ \A r \in 1..MaxLiveStarts :
           (r <= Len(hist))
               ~> (\/ GameId \notin DOMAIN games
                   \/ (r <= Len(hist) /\ hist[r].by = "answer")
                   \/ TimedOut(r))

\* In a game started by start_first_round with both players connected, the
\* first round and the round started after it by continue_or_end_game were
\* both timed out, each followed by its continue-or-end decision.
C18_Witness ==
    /\ origin.fresh
    /\ AllConnected
    /\ GameId \in DOMAIN games
    /\ Len(hist) >= 2
    /\ TimedOut(1)
    /\ TimedOut(2)
    /\ hist[2].number = 2

\* ---------------------------------------------------------------------
\* The GameEnd messages broadcast so far.
GameEnds(msgs) == {i \in 1..Len(msgs) : msgs[i].type = "GameEnd"}

\* A task is between words.get_random() and the start of the next round.
StartPending ==
    \/ \E p \in GamePlayers : ans[p].pc = "start"
    \/ \E t \in timers : t.pc = "start"

\* The resolution of round instance rid met a threshold of the game: it is
\* the latest resolution and a player has WINS_NEEDED wins, or the round's
\* number reached MAX_ROUNDS.
ThresholdMet(rid) ==
    /\ GameId \in DOMAIN games
    /\ hist[rid].resolved = 1
    /\ \/ /\ IsSome(game_winner(games[GameId]))
          /\ \A r \in Rids : r > rid => hist[r].resolved = 0
       \/ hist[rid].number >= MAX_ROUNDS

\* After GameEnd was broadcast for the game nothing but
\* OpponentDisconnected is broadcast for it, no round is or becomes active
\* in its session, no next round is pending, and GameEnd is broadcast once.
GameEndTerminal ==
    /\ [](GameEnds(bcast) # {}
            => /\ Cardinality(GameEnds(bcast)) = 1
               /\ ~StartPending
               /\ GameId \in DOMAIN games
                     => games[GameId].current_round = None)
    /\ [][GameEnds(bcast) # {}
            => /\ \A i \in (Len(bcast) + 1)..Len(bcast') :
                      bcast'[i].type = "OpponentDisconnected"
               /\ hist' = hist]_vars

\* With both players connected, the continue-or-end decision that follows
\* a resolution which met a threshold broadcasts GameEnd and starts no
\* further round.
GameEndWhenThresholdMet ==
    \A rid \in Rids :
        (AllConnected /\ ThresholdMet(rid) /\ hist[rid].conts = 1)
            => (/\ Cardinality(GameEnds(bcast)) = 1
                /\ rid = Len(hist)
                /\ ~StartPending)

\* C19: game end is terminal.  When a resolution makes a player reach
\* WINS_NEEDED, or the max-round threshold is met, GameEnd is broadcast
\* and the game stops; after GameEnd no RoundStart and no RoundResult is
\* broadcast, no round becomes active, and GameEnd is broadcast at most
\* once.
C19_GameEndIsTerminal ==
    /\ []GameEndWhenThresholdMet
    /\ GameEndTerminal

\* ---------------------------------------------------------------------
\* Round instance rid, whose number reached MAX_ROUNDS, is the latest round
\* resolved, its continue-or-end decision was taken, both players are
\* connected and no player has WINS_NEEDED wins.
MaxRoundResolved(rid) ==
    /\ AllConnected
    /\ GameId \in DOMAIN games
    /\ hist[rid].number >= MAX_ROUNDS
    /\ hist[rid].resolved = 1
    /\ hist[rid].conts = 1
    /\ \A r \in Rids : r > rid => hist[r].resolved = 0
    /\ game_winner(games[GameId]) = None

\* C20: max-round decision.  When a round whose number has reached
\* MAX_ROUNDS is resolved and no player has reached WINS_NEEDED, the game
\* ends: no further round is started and GameEnd is broadcast, naming the
\* player with the strictly higher score, or nobody when the scores are
\* equal.
C20_MaxRoundDecision ==
    \A rid \in Rids :
        MaxRoundResolved(rid)
            => (/\ rid = Len(hist)
                /\ ~StartPending
                /\ Cardinality(GameEnds(bcast)) = 1
                /\ \A i \in GameEnds(bcast) :
                       bcast[i].winner = score_winner(games[GameId]))

\* ---------------------------------------------------------------------
\* The alphabet of game ids: lower-case letters and digits, without the
\* look-alikes 0, o, 1 and l.
RestrictedAlphabet ==
    {"a", "b", "c", "d", "e", "f", "g", "h", "i", "j", "k", "m", "n", "p",
     "q", "r", "s", "t", "u", "v", "w", "x", "y", "z",
     "2", "3", "4", "5", "6", "7", "8", "9"}

\* C28: generate_unique_game_id(exists) returns only a code of 6
\* characters of the restricted alphabet for which exists(code) was false;
\* a candidate reported as existing is not returned, it is discarded and
\* another one is generated.
C28_UniqueGameId ==
    /\ [](IsSome(gen.ret)
            => /\ gen.pc = "returned"
               /\ Len(Unwrap(gen.ret)) = 6
               /\ \A k \in 1..Len(Unwrap(gen.ret)) :
                      Unwrap(gen.ret)[k] \in RestrictedAlphabet
               /\ Unwrap(gen.ret) \notin gen.exists)
    /\ [][(gen.pc = "check" /\ gen.id \in gen.exists)
            => (gen'.pc = "generate" /\ gen'.id = <<>> /\ gen'.ret = None)]_vars

\* A code was returned on the second attempt, after the first candidate was
\* reported as existing.
C28_Witness ==
    /\ gen.pc = "returned"
    /\ gen.attempts = 2
    /\ gen.exists # {}

(***************************************************************************)
(* Properties of the ephemeral endpoint with its channels observed          *)
(* (SpecObserved).                                                          *)
(***************************************************************************)
\* The number of messages of a type among msgs.
CountType(msgs, type) == Cardinality({i \in 1..Len(msgs) : msgs[i].type = type})

RECURSIVE SumOver(_, _)
SumOver(f, S) ==
    IF S = {} THEN 0
    ELSE LET x == CHOOSE y \in S : TRUE IN f[x] + SumOver(f, S \ {x})

\* The number of messages of a type sent so far on the observed channels.
TotalOf(type) ==
    SumOver([ch \in DOMAIN outbox |-> CountType(outbox[ch], type)], DOMAIN outbox)

\* The pending games connection h has inserted so far.
CreatedBy(h) ==
    CountType(outbox[h], "GameCreated")
        + (IF h \in Conns /\ econn[h].pc = "create_send" THEN 1 ELSE 0)

\* No handler of the ephemeral endpoint is part-way through.
HandlersIdle == \A c \in Conns : econn[c].pc \in {"idle", "closed"}

\* Connection c is inside a successful join of code.
Joining(c, code) ==
    /\ econn[c].pc \in {"join_game", "join_host", "join_guest", "join_notify",
                        "first_round"}
    /\ econn[c].code = code

\* C21: a pending game is consumed by its first join.  The step of
\* join_game that finds the code removes it from pending_games, and only
\* CreateGame puts a code there; every pending game is joined at most once
\* (its host is sent at most one OpponentJoined per game it created), so of
\* two joins racing for the same code one succeeds and the other is
\* answered with GameNotFound; every JoinGame handled is answered with
\* exactly one of the two.
C21_PendingConsumedByFirstJoin ==
    /\ [][\A c \in Conns :
             (econn[c].pc = "idle" /\ econn'[c].pc = "join_game")
                 => (/\ econn'[c].code \in DOMAIN pending_games
                     /\ econn'[c].code \notin DOMAIN pending_games')]_vars
    /\ [][\A code \in Codes :
             (code \notin DOMAIN pending_games /\ code \in DOMAIN pending_games')
                 => (\E c \in Conns : econn[c].pc = "create_insert"
                                        /\ econn[c].code = code)]_vars
    /\ [](\A h \in DOMAIN outbox :
             CountType(outbox[h], "OpponentJoined") <= CreatedBy(h))
    /\ [](HandlersIdle
            => ephMsgs = TotalOf("GameCreated") + TotalOf("OpponentJoined")
                           + TotalOf("GameNotFound")
                           - (IF HostConn \in DOMAIN outbox THEN 1 ELSE 0))

\* Two guests asked for the code of the waiting host at the same time: one
\* is inside join_game with the pending game taken, the other was answered
\* GameNotFound for that code, and the host has no second OpponentJoined.
C21_Witness ==
    /\ HostConn \in DOMAIN outbox
    /\ Joining("c1", "g1")
    /\ econn["c1"].pc = "join_game"
    /\ outbox["c2"] = <<GameNotFoundMsg("g1")>>
    /\ "g1" \notin DOMAIN pending_games

\* C22: a pending game is destroyed when its host disconnects before any
\* guest joined: once the disconnect handling of a connection has
\* completed, no game that this connection created is still pending (so a
\* later JoinGame with its code is answered GameNotFound).
C22_PendingDestroyedOnHostDisconnect ==
    \A code \in DOMAIN pending_games :
        pending_games[code].conn \in Conns
            => econn[pending_games[code].conn].pc # "closed"

\* A JoinGame is handled in this step: a message is taken that is not a
\* CreateGame.
JoinGameHandled ==
    /\ ephMsgs' = ephMsgs + 1
    /\ \A c \in Conns : econn'[c].pc = "create_insert" => econn[c].pc = "create_insert"

\* Channel ch is sent GameNotFound in this step.
NotFoundSentTo(ch) ==
    CountType(outbox'[ch], "GameNotFound") > CountType(outbox[ch], "GameNotFound")

\* C23: JoinGame with a code that is not a pending game sends GameNotFound
\* to the requesting connection only and changes nothing: pending_games,
\* games and player_games are unchanged, the connection's player id is what
\* it was (unset for a connection that has not created or joined a game),
\* and no other channel is sent anything.  A JoinGame for a code that is
\* not pending is always answered so, and GameNotFound is sent for no
\* other reason.
C23_JoinUnknownCode ==
    /\ [][\A ch \in DOMAIN outbox :
             NotFoundSentTo(ch)
                 => (/\ ch \in Conns
                     /\ JoinGameHandled
                     /\ econn[ch].pc = "idle"
                     /\ \E code \in Codes \ DOMAIN pending_games :
                            outbox' = [outbox EXCEPT
                                          ![ch] = Append(@, GameNotFoundMsg(code))]
                     /\ pending_games' = pending_games
                     /\ games' = games
                     /\ player_games' = player_games
                     /\ econn' = econn)]_vars
    /\ [][JoinGameHandled
             => \/ \E ch \in Conns : NotFoundSentTo(ch)
                \/ \E c \in Conns :
                      /\ econn[c].pc = "idle"
                      /\ econn'[c].pc = "join_game"
                      /\ econn'[c].code \in DOMAIN pending_games
                      /\ outbox' = outbox]_vars

\* A connection that never created or joined a game asked for a code that
\* is not pending while another game was pending, and was answered
\* GameNotFound; the pending game is still there.
C23_Witness ==
    /\ outbox["c2"] = <<GameNotFoundMsg("g2")>>
    /\ econn["c2"].user_id = None
    /\ "g1" \in DOMAIN pending_games
    /\ "g2" \notin DOMAIN pending_games

\* C24: ephemeral duplicate name.  join_game gives the guest the name it
\* asked for unless that is the host's display name, and then the name
\* followed by " (2)"; the session is created with the host's name and that
\* guest id, which are distinct, and the host's OpponentJoined (and
\* GameStart) carry that guest id, which becomes the guest's player id.
C24_DuplicateName ==
    /\ [](\A g \in DOMAIN games : games[g].player1 # games[g].player2)
    /\ [][\A c \in Conns :
             (econn[c].pc = "idle" /\ econn'[c].pc = "join_game")
                 => LET host == pending_games[econn'[c].code].host IN
                    /\ econn'[c].host = host
                    /\ \/ econn'[c].guest \in DisplayNames \ {host}
                       \/ econn'[c].guest = host \o " (2)"]_vars
    /\ [][\A c \in Conns :
             (econn[c].pc = "join_game" /\ econn'[c].pc = "join_host")
                 => (/\ games'[econn[c].code].player1 = econn[c].host
                     /\ games'[econn[c].code].player2 = econn[c].guest)]_vars
    /\ [][\A c \in Conns :
             (econn[c].pc = "join_notify" /\ econn'[c].pc = "first_round")
                 => (/\ econn'[c].user_id = Some(econn[c].guest)
                     /\ \E i \in 1..Len(outbox'[econn[c].host_tx]) :
                            /\ i > Len(outbox[econn[c].host_tx])
                            /\ outbox'[econn[c].host_tx][i] =
                                   OpponentJoinedMsg(econn[c].guest))]_vars

\* Host alice created a game, a guest joined it as alice, and the host was
\* sent OpponentJoined with "alice (2)", the guest's player id in the
\* session.
C24_Witness ==
    \E c \in Conns, g \in DOMAIN games :
        /\ games[g].player1 = "alice"
        /\ games[g].player2 = "alice (2)"
        /\ econn[c].user_id = Some("alice (2)")
        /\ \E h \in DOMAIN outbox \ {c} :
               \E i \in 3..Len(outbox[h]) :
                   /\ outbox[h][1].type = "GameCreated"
                   /\ outbox[h][i] = OpponentJoinedMsg("alice (2)")

(***************************************************************************)
(* C25: the order of the messages of a game start on a player's channel.    *)
(***************************************************************************)
IndexesOf(msgs, type) == {i \in 1..Len(msgs) : msgs[i].type = type}

\* Every RoundStart of round 1 on a channel has a GameStart before it.
GameStartBeforeRoundStart ==
    \A ch \in DOMAIN outbox :
        \A i \in IndexesOf(outbox[ch], "RoundStart") :
            outbox[ch][i].round = 1 =>
                \E j \in IndexesOf(outbox[ch], "GameStart") : j < i

\* Every OpponentJoined on a channel comes after a GameCreated and a
\* WaitingForOpponent, in that order, and before a GameStart that is itself
\* before any later RoundStart.
HostOrdering ==
    \A ch \in DOMAIN outbox :
        \A i \in IndexesOf(outbox[ch], "OpponentJoined") :
            /\ \E j \in IndexesOf(outbox[ch], "GameCreated") :
                   \E k \in IndexesOf(outbox[ch], "WaitingForOpponent") :
                       j < k /\ k < i
            /\ i < Len(outbox[ch]) /\ outbox[ch][i + 1].type = "GameStart"

\* C25 (ephemeral half): the host of an ephemeral game receives GameCreated,
\* WaitingForOpponent, OpponentJoined, GameStart and RoundStart in that
\* order, and every player its GameStart before the RoundStart of round 1.
C25_EphemeralStartOrdering == GameStartBeforeRoundStart /\ HostOrdering

\* C25: at a game start every player receives GameStart before the RoundStart
\* of round 1, and in matchmaking the first joiner receives Waiting before
\* GameStart: whenever a GameStart arrives on a channel, its connection has no
\* Waiting of its own join still to send.
C25_GameStartOrdering ==
    /\ [][GameStartBeforeRoundStart']_vars
    /\ [][\A ch \in MConns :
              (/\ ch \in DOMAIN outbox
               /\ CountType(outbox'[ch], "GameStart")
                      > CountType(outbox[ch], "GameStart"))
                  => mconn[ch].pc # "send_waiting"]_vars

(***************************************************************************)
(* C26: an Answer that resolves nothing.                                    *)
(***************************************************************************)
\* Some answer of p would resolve nothing in the current state: the text is
\* wrong, no round is active, or p is in no game.
CanAnswerInVain(p) ==
    \E a \in Answers : Registry_submit_answer(games, player_games, p, a).r = None

\* C26: whenever a message arrives on a player's own channel it is the
\* WrongAnswer for an Answer of that player that resolved nothing, nothing
\* arrives on the other player's channel or on the game's broadcast, no
\* timeout task is spawned, and the games (round and scores) and both
\* registry maps are unchanged.
C26_WrongAnswerOnlyToSubmitter ==
    [][\A p \in GamePlayers :
          (p \in DOMAIN outbox /\ outbox'[p] # outbox[p]) =>
              /\ outbox'[p] = Append(outbox[p], WrongAnswerMsg)
              /\ CanAnswerInVain(p)
              /\ \A q \in GamePlayers \ {p} : outbox'[q] = outbox[q]
              /\ UNCHANGED <<games, player_games, timers, bcast, ans, hist>>]_vars

\* A player was sent WrongAnswer while a round was active, and thereafter
\* the round is still active with no score.
C26_Witness ==
    /\ \E p \in GamePlayers : p \in DOMAIN outbox /\ Len(outbox[p]) > 0
    /\ GameId \in DOMAIN games
    /\ IsSome(games[GameId].current_round)
    /\ hist # <<>>

(***************************************************************************)
(* C27: the frame of cleanup_game.                                          *)
(***************************************************************************)
\* A step of a running cleanup_game.
CleanupStep == cleanup' # cleanup

\* cleanup_game(g) removes from games the session g and nothing else.
CleanupKeepsOtherGames ==
    CleanupStep =>
        IF cleanup.pc = "idle"
        THEN games' = Remove(games, cleanup'.game_id)
        ELSE games' = games

\* cleanup_game(g) removes from player_games only entries that map to g.
CleanupKeepsOtherPlayers ==
    CleanupStep =>
        \A u \in DOMAIN player_games :
            IF u \in DOMAIN player_games'
            THEN player_games'[u] = player_games[u]
            ELSE player_games[u] = cleanup.game_id

\* C27: cleanup_game(g) removes the session g and the player_games entries
\* of its two players, and leaves every other game and the mappings of the
\* players of other games unchanged.
C27_CleanupGameFrame ==
    [][CleanupKeepsOtherGames /\ CleanupKeepsOtherPlayers]_vars

(***************************************************************************)
(* C29: the round number returned by GameRegistry::submit_answer.           *)
(***************************************************************************)
\* The handle_answer of p has just got Some(result) from submit_answer.
AnswerResolved(p) == ans[p].pc = "idle" /\ ans'[p].pc = "broadcast"

\* C29: when submit_answer resolves a round, the round_number of its result
\* is the number of the round that was active, the one it just resolved.
C29_ReturnedRoundNumber ==
    [][\A p \in GamePlayers :
          AnswerResolved(p) =>
              /\ p \in DOMAIN player_games
              /\ player_games[p] \in DOMAIN games
              /\ current_round_number(games[player_games[p]])
                     = Some(ans'[p].round_number)]_vars

(***************************************************************************)
(* C30: the timeout tasks of a session that is gone.                        *)
(***************************************************************************)
\* The sleep of timeout task t ends in this step.
Fires(t) == t \in timers /\ t.pc = "sleeping" /\ t \notin timers'

\* C30: when the timeout task of a game id that is not in the registry
\* fires, nothing is broadcast, no state changes, and no further timeout
\* task is spawned: the task just ends.
C30_TimerChainEndsWithSession ==
    [][\A t \in timers :
          (Fires(t) /\ t.game_id \notin DOMAIN games) =>
              /\ timers' = timers \ {t}
              /\ UNCHANGED <<games, player_games, bcast, hist, curRid, ans, conn>>]_vars

\* The session is gone, its last round was never resolved, and the timeout
\* task armed for that round is gone too: it fired after the session was
\* removed.
C30_Witness ==
    /\ GameId \notin DOMAIN games
    /\ hist # <<>>
    /\ hist[Len(hist)].resolved = 0
    /\ timers = {}

(***************************************************************************)
(* C31: the word source has no word when a round should start.              *)
(***************************************************************************)
\* In this step a task asked for a word and get_random returned none.
WordFailed ==
    \/ first'.failed /\ ~first.failed
    \/ \E rid \in 1..Len(hist) :
           Len(hist') = Len(hist) /\ hist'[rid].noword # hist[rid].noword

\* The tasks that hold a word and are about to announce or start a round.
Starters ==
    (IF first.pc \in {"send", "start"} THEN {"first"} ELSE {})
        \cup {p \in GamePlayers : ans[p].pc = "start"}
        \cup {t.rid : t \in {u \in timers : u.pc = "start"}}

\* The number of timeout tasks asleep.
Sleeping == Cardinality({t \in timers : t.pc = "sleeping"})

\* C31: when get_random returns none where round 1 or a next round should
\* start, no RoundStart is broadcast, no round becomes active, no timeout is
\* scheduled, no task is left that would do so, and the session stays in the
\* registry with its scores unchanged.
C31_WordSourceFailure ==
    [][WordFailed =>
          /\ bcast' = bcast
          /\ games' = games
          /\ player_games' = player_games
          /\ Sleeping' = Sleeping
          /\ Starters' \subseteq Starters]_vars

\* A registered game whose first round or next round did not start for want
\* of a word: no round is active and no task is left.
C31_Witness ==
    /\ GameId \in DOMAIN games
    /\ games[GameId].current_round = None
    /\ first.failed \/ \E rid \in 1..Len(hist) : hist[rid].noword > 0
    /\ timers = {}
    /\ first.pc = "done"
    /\ \A p \in GamePlayers : ans[p].pc = "idle"

(***************************************************************************)
(* C32: what the creation of a session writes over.                         *)
(***************************************************************************)
\* Connection c leaves the step of join_game that it is at.
Leaves(c, pc) == econn[c].pc = pc /\ econn'[c].pc # pc

\* player_games maps id to a session in games other than game_id.
MapsToOtherLiveSession(id, game_id) ==
    /\ id \in DOMAIN player_games
    /\ player_games[id] # game_id
    /\ player_games[id] \in DOMAIN games

\* C32: the creation of a session by join_game never overwrites the games
\* entry of a live session, and never overwrites a player_games entry that
\* maps a player id to another live session.
C32_CreationAddsFreshKeys ==
    [][\A c \in Conns :
          /\ Leaves(c, "join_game") => econn[c].code \notin DOMAIN games
          /\ Leaves(c, "join_host") =>
                 ~MapsToOtherLiveSession(econn[c].host, econn[c].code)
          /\ Leaves(c, "join_guest") =>
                 ~MapsToOtherLiveSession(econn[c].guest, econn[c].code)]_vars

(***************************************************************************)
(* C33: a player matched with itself.                                       *)
(***************************************************************************)
\* C33: try_match never returns Matched with the caller's own id, and every
\* session created by matchmaking has two distinct player ids.
C33_NoSelfMatch ==
    /\ \A c \in MConns :
           IsSome(mconn[c].opponent_id) => mconn[c].opponent_id # mconn[c].user_id
    /\ \A g \in DOMAIN mgames : mgames[g].player1 # mgames[g].player2

(***************************************************************************)
(* C34: a disconnect that races with the try_join of the matched opponent.  *)
(***************************************************************************)
\* The steps of try_join and handle_join from the insert of the session on.
CreatingSteps ==
    {"insert_game", "insert_opponent", "insert_self", "game_start", "first_round"}

\* Connection c2 is creating, or has just created, a session whose other
\* player is the user of connection c, with c's channel.
CreatesSessionWith(c2, c) ==
    /\ mconn[c2].pc \in CreatingSteps
    /\ mconn[c2].opponent_tx = c
    /\ mconn[c2].opponent_id = mconn[c].user_id

\* C34: once the handle_disconnect of a connection has completed, no session
\* with that connection's player is in games or is inserted later on behalf
\* of that connection.
C34_NoOrphanGame ==
    \A c \in MConns :
        mconn[c].pc = "closed" =>
            \A c2 \in MConns \ {c} : ~CreatesSessionWith(c2, c)

(***************************************************************************)
(* C35: the state of the session when a RoundStart becomes visible.         *)
(***************************************************************************)
\* A RoundStart is put on the players' channels in this step.
AnnouncesRound ==
    /\ Len(bcast') = Len(bcast) + 1
    /\ bcast'[Len(bcast')].type = "RoundStart"

\* The session is registered once the step is done.
SessionLiveAfter == GameId \in DOMAIN games'

\* C35: whenever a RoundStart with round n is made visible to the players,
\* the session is in the registry and has round n active, so that an answer
\* sent on seeing it meets that round.
C35_RoundStartForLiveRound ==
    [][AnnouncesRound =>
          /\ SessionLiveAfter
          /\ current_round_number(games'[GameId])
                 = Some(bcast'[Len(bcast')].round)]_vars

(***************************************************************************)
(* C36: the number of rounds of a game.                                     *)
(***************************************************************************)
\* The rounds started in the game so far: those before the position the
\* game is observed from, and those started since.
RoundsStarted ==
    (IF origin.fresh THEN 0 ELSE origin.number - 1) + Len(hist)

\* C36: for any mix of rounds resolved by correct answers and by timeouts,
\* at most MAX_ROUNDS rounds are started in a game.
C36_BoundedRounds == RoundsStarted <= MAX_ROUNDS

(***************************************************************************)
(* C37: termination of a game.                                              *)
(***************************************************************************)
\* C37: in a game whose players stay connected and whose word source always
\* has a word, with the tasks scheduled, GameEnd is eventually broadcast,
\* whatever the mix of correct answers, wrong answers and timeouts.
C37_GameTermination == <>(GameEnds(bcast) # {})

\* GameEnd was broadcast in a game in which a player got WrongAnswer, one
\* round was resolved by an answer and a later one by a timeout.
C37_Witness ==
    /\ GameEnds(bcast) # {}
    /\ \E p \in GamePlayers : WrongAnswerMsg \in {outbox[p][i] : i \in 1..Len(outbox[p])}
    /\ \E r1 \in Rids : \E r2 \in Rids :
           r1 < r2 /\ hist[r1].by = "answer" /\ hist[r2].by = "timeout"

\* The rounds of the game that a correct answer resolved, and those that
\* ended otherwise.
AnsweredRounds == {rid \in 1..Len(hist) : hist[rid].by = "answer"}
TimedOutRounds == {rid \in 1..Len(hist) : hist[rid].by = "timeout"}

\* The wins the game had at the position it is followed from.
WinsAtOrigin == origin.scores[1] + origin.scores[2]

\* C38: in every reachable state of a registered game the two scores add up
\* to the number of its rounds resolved by a correct answer (timeouts and
\* wrong answers change no score), neither score exceeds WINS_NEEDED, and at
\* most one player has reached WINS_NEEDED.
C38_ScoreInvariant ==
    \A game_id \in DOMAIN games :
        LET scores == games[game_id].scores IN
        /\ scores[1] + scores[2] = WinsAtOrigin + Cardinality(AnsweredRounds)
        /\ \A rid \in AnsweredRounds : hist[rid].resolved = 1
        /\ scores[1] <= WINS_NEEDED
        /\ scores[2] <= WINS_NEEDED
        /\ ~(scores[1] >= WINS_NEEDED /\ scores[2] >= WINS_NEEDED)

\* A registered game that one player has won with WINS_NEEDED wins, after a
\* round that timed out and a round that a correct answer resolved.
C38_Witness ==
    /\ GameId \in DOMAIN games
    /\ WINS_NEEDED \in {games[GameId].scores[1], games[GameId].scores[2]}
    /\ AnsweredRounds # {}
    /\ TimedOutRounds # {}
    /\ GameEnds(bcast) # {}

\* The skip flag of player i (1 or 2) in the active round of a session, and
\* the id of that player.
SkipFlagOf(self, i) ==
    IF i = 1 THEN Unwrap(self.current_round).player1_skipped
    ELSE Unwrap(self.current_round).player2_skipped
PlayerAt(self, i) == IF i = 1 THEN self.player1 ELSE self.player2

\* The step leaves the round that was active in place.
SameRound ==
    /\ IsSome(gs.current_round)
    /\ IsSome(gs'.current_round)
    /\ Unwrap(gs'.current_round).number = Unwrap(gs.current_round).number
    /\ Unwrap(gs'.current_round).word = Unwrap(gs.current_round).word

\* C39: while a round is active in a GameSession at most one of the two skip
\* flags is set; every round begins with both flags clear; and a skip of one
\* round never counts towards BothSkipped in a later round: only start_round
\* puts a round in place, a flag that is set was set by a record_skip of its
\* player in the same round, and BothSkipped is returned only to a player
\* whose opponent's flag is set in the active round.
C39_SkipFlags ==
    [][/\ IsSome(gs'.current_round) =>
              ~(SkipFlagOf(gs', 1) /\ SkipFlagOf(gs', 2))
       /\ last'.op = "start_round" =>
              (/\ IsSome(gs'.current_round)
               /\ ~SkipFlagOf(gs', 1)
               /\ ~SkipFlagOf(gs', 2))
       /\ (IsSome(gs'.current_round) /\ last'.op # "start_round") => SameRound
       /\ IsSome(gs'.current_round) =>
              \A i \in 1..2 :
                  SkipFlagOf(gs', i) =>
                      (/\ SameRound
                       /\ \/ SkipFlagOf(gs, i)
                          \/ /\ last'.op = "record_skip"
                             /\ last'.player = PlayerAt(gs, i))
       /\ (/\ last'.op = "record_skip"
           /\ IsSome(last'.ret)
           /\ Unwrap(last'.ret).tag = "BothSkipped") =>
              (/\ IsSome(gs.current_round)
               /\ SkipFlags(gs, last'.player) = <<FALSE, TRUE>>)
      ]_vars

\* In the last round the second player has skipped and waits for the first.
C39_Witness ==
    /\ IsSome(gs.current_round)
    /\ Unwrap(gs.current_round).number = MaxRoundNumber
    /\ SkipFlagOf(gs, 2)
    /\ ~SkipFlagOf(gs, 1)
    /\ last.op = "record_skip"
    /\ last.player = gs.player2
    /\ last.ret = Some(WaitingForOpponent)

\* Connection c is inside a create_game call, or back from it with the code
\* not yet sent.
Creating(c) == econn[c].pc \in {"create_insert", "create_send"}

\* C40: concurrent create_game calls never hand out the same code: when a
\* host's call inserts its pending game, no other call in progress holds the
\* same code, and the insert puts a new key into pending_games, overwriting
\* no entry.
C40_ConcurrentCreateGame ==
    [][\A c \in Conns :
          Leaves(c, "create_insert") =>
              (/\ econn[c].code \notin DOMAIN pending_games
               /\ \A c2 \in Conns \ {c} :
                      Creating(c2) => econn[c2].code # econn[c].code)
      ]_vars
====
